---- MODULE Spec2Model ----
(***************************************************************************)
(* Model of oru-transcript-formatter: the markup-to-document renderer      *)
(* WordExporter.export and WordExporter._add_formatted_text                *)
(* (src/transcript_formatter/exporters/word_exporter.py), the document     *)
(* builders create_word_document (src/web_app.py) and handler.do_POST      *)
(* (src/api/index.py), and the way from a transcript to a document in the  *)
(* front ends (cli.py, web_app.py, fast_web_app.py) through                *)
(* ClaudeFormatter.format_transcript (core/claude_formatter.py).           *)
(*                                                                         *)
(* A text is a sequence of one-character strings.  Offsets into a text are *)
(* 0-based, as in the Python source; Ch and Slice translate them to the    *)
(* 1-based sequences of TLA+.  The two non-ASCII characters the code tests *)
(* for are written Note (U+266A) and BoxDash (U+2500).                     *)
(***************************************************************************)
EXTENDS Integers, Sequences, FiniteSets, TLC

VARIABLES
    text,       \* _add_formatted_text: the line being split
    regions,    \* _add_formatted_text: the sorted formatting regions
    ridx,       \* _add_formatted_text: number of regions already walked
    last_pos,   \* _add_formatted_text: the walk position
    runs,       \* _add_formatted_text: runs added to the paragraph so far
    spc,        \* _add_formatted_text: position in the method
    doc,        \* WordExporter: self.doc.paragraphs
    lines,      \* export: formatted_text.split('\n')
    i,          \* export: the loop index
    pc,         \* position in the method or handler that runs
    front,      \* the front end that handles the transcript
    content,    \* the transcript text the front end read
    callbacks,  \* format_transcript: the progress messages delivered
    api_calls,  \* the requests made to the model API
    formatted,  \* formatted_text: the answer of the model, as far as read
    exc,        \* the exception raised by the formatting call
    rendered,   \* the texts handed to the document renderer
    response,   \* what the front end returned
    calls,      \* WordExporter: the export calls made on the exporter
    title,      \* create_word_document: the title argument
    cleaned,    \* the texts returned by the cleanup of an answer
    tried,      \* format_with_claude_fallback: the models called so far
    last_error, \* format_with_claude_fallback: last_error
    exc_msg,    \* what the exception raised carries
    formatter_used, \* format_with_claude_fallback: the model name returned
    uploads,    \* upload_file: the files of UPLOAD_FOLDER, by name
    outputs,    \* upload_file: the files of OUTPUT_FOLDER, by name
    reqs        \* upload_file: the requests being handled and their locals

splitVars == <<text, regions, ridx, last_pos, runs, spc>>

exportVars == <<doc, lines, i, pc>>

frontVars == <<front, content, callbacks, api_calls, formatted, exc, rendered, response>>

moreVars == <<calls, title, cleaned, tried, last_error, exc_msg, formatter_used>>

uploadVars == <<uploads, outputs, reqs>>

vars ==
    <<text, regions, ridx, last_pos, runs, spc, doc, lines, i, pc,
      front, content, callbacks, api_calls, formatted, exc, rendered, response,
      calls, title, cleaned, tried, last_error, exc_msg, formatter_used,
      uploads, outputs, reqs>>

-----------------------------------------------------------------------------
(* Bounds of the model *)

\* longest line over the alphabet {*, a} given to the span splitter
MaxStarLen == 9

\* most fragments in the bold content of a generated Scripture line
MaxFrags == 2

\* most plain lines at the head of an exported text
MaxFill == 5

\* most lines after the plain lines of an exported text
MaxTail == 1

-----------------------------------------------------------------------------
(* Characters and Python string primitives *)

Star == "*"

Note == "<U+266A>"

BoxDash == "<U+2500>"

Digits == {"0", "1", "2", "3", "4", "5", "6", "7", "8", "9"}

Letters ==
    { "a","b","c","d","e","f","g","h","i","j","k","l","m","n","o","p","q","r",
      "s","t","u","v","w","x","y","z","A","B","C","D","E","F","G","H","I","J",
      "K","L","M","N","O","P","Q","R","S","T","U","V","W","X","Y","Z" }

Whitespace == {" ", "\t"}

Ch(t, k) == t[k + 1]

Slice(t, a, b) == SubSeq(t, a + 1, b)

SliceFrom(t, a) == SubSeq(t, a + 1, Len(t))

MinOf(S) == CHOOSE x \in S : \A y \in S : x <= y

RECURSIVE Remove(_, _)
\* str.replace(c, '')
Remove(t, c) ==
    IF t = <<>> THEN <<>>
    ELSE IF Head(t) = c THEN Remove(Tail(t), c)
    ELSE <<Head(t)>> \o Remove(Tail(t), c)

RECURSIVE LStrip(_, _)
\* str.lstrip(chars)
LStrip(t, cs) ==
    IF t /= <<>> /\ Head(t) \in cs THEN LStrip(Tail(t), cs) ELSE t

RECURSIVE RStrip(_, _)
\* str.rstrip(chars)
RStrip(t, cs) ==
    IF t /= <<>> /\ t[Len(t)] \in cs THEN RStrip(SubSeq(t, 1, Len(t) - 1), cs) ELSE t

\* str.strip(chars)
Strip(t, cs) == RStrip(LStrip(t, cs), cs)

\* str.startswith(p)
StartsWith(t, p) == Len(t) >= Len(p) /\ SubSeq(t, 1, Len(p)) = p

\* str.endswith(p)
EndsWith(t, p) == Len(t) >= Len(p) /\ SubSeq(t, Len(t) - Len(p) + 1, Len(t)) = p

\* p in t
Contains(t, p) ==
    \E k \in 0..(Len(t) - Len(p)) : Slice(t, k, k + Len(p)) = p

-----------------------------------------------------------------------------
(* WordExporter._is_scripture_reference *)

books ==
    << <<"J","o","h","n">>, <<"T","i","m","o","t","h","y">>, <<"M","a","r","k">>,
       <<"J","e","r","e","m","i","a","h">>, <<"H","e","b","r","e","w","s">>,
       <<"L","u","k","e">>, <<"A","c","t","s">>, <<"J","u","d","e">>,
       <<"M","a","t","t","h","e","w">>, <<"R","o","m","a","n","s">>,
       <<"C","o","r","i","n","t","h","i","a","n","s">>,
       <<"G","e","n","e","s","i","s">>, <<"E","x","o","d","u","s">>,
       <<"P","s","a","l","m","s">> >>

RECURSIVE SearchVerse(_, _, _)
\* re.search(r'\d+<sep>\d+', t) scanning from offset k; sep is ':' or '--'
SearchVerse(t, sep, k) ==
    IF k + Len(sep) + 2 > Len(t) THEN FALSE
    ELSE IF /\ Ch(t, k) \in Digits
            /\ Slice(t, k + 1, k + 1 + Len(sep)) = sep
            /\ Ch(t, k + 1 + Len(sep)) \in Digits
         THEN TRUE
         ELSE SearchVerse(t, sep, k + 1)

\* `book in text`
BookInText(book, t) == Contains(t, book)

\* the verse-number test alone, the book names forgotten
IsScriptureNoBooks(t) ==
    SearchVerse(t, <<":">>, 0) \/ SearchVerse(t, <<"-", "-">>, 0)

\* lines 210-219
IsScriptureReference(t) ==
    IF SearchVerse(t, <<":">>, 0) \/ SearchVerse(t, <<"-", "-">>, 0)
    THEN TRUE
    ELSE \E b \in 1..Len(books) : BookInText(books[b], t)

-----------------------------------------------------------------------------
(* WordExporter._add_formatted_text: regular expressions *)

NoMatch == [type |-> "none", start |-> -1, end |-> -1, content |-> <<>>]

\* offsets e of a closing '**' for a bold match opened at s: '.+?' needs one
\* character at least
BoldCloses(t, s) ==
    {e \in (s + 3)..(Len(t) - 2) : Ch(t, e) = Star /\ Ch(t, e + 1) = Star}

\* the match of r'\*\*(.+?)\*\*' that starts at offset s, if any
BoldMatchAt(t, s) ==
    IF /\ s + 1 < Len(t)
       /\ Ch(t, s) = Star
       /\ Ch(t, s + 1) = Star
       /\ BoldCloses(t, s) /= {}
    THEN LET e == MinOf(BoldCloses(t, s))
         IN  [type |-> "bold", start |-> s, end |-> e + 2,
              content |-> Slice(t, s + 2, e)]
    ELSE NoMatch

RECURSIVE BoldMatches(_, _)
\* re.finditer(bold_pattern, text), scanning from offset pos
BoldMatches(t, pos) ==
    IF pos >= Len(t) THEN <<>>
    ELSE LET m == BoldMatchAt(t, pos)
         IN  IF m.start >= 0 THEN <<m>> \o BoldMatches(t, m.end)
             ELSE BoldMatches(t, pos + 1)

\* a '*' at offset k with no '*' right before it and none right after it:
\* (?<!\*)\*(?!\*)
LoneStar(t, k) ==
    /\ k >= 0 /\ k < Len(t)
    /\ Ch(t, k) = Star
    /\ (k = 0 \/ Ch(t, k - 1) /= Star)
    /\ (k + 1 >= Len(t) \/ Ch(t, k + 1) /= Star)

ItalicCloses(t, s) == {e \in (s + 2)..(Len(t) - 1) : LoneStar(t, e)}

\* the match of r'(?<!\*)\*(?!\*)(.+?)(?<!\*)\*(?!\*)' that starts at s, if any
ItalicMatchAt(t, s) ==
    IF LoneStar(t, s) /\ ItalicCloses(t, s) /= {}
    THEN LET e == MinOf(ItalicCloses(t, s))
         IN  [type |-> "italic", start |-> s, end |-> e + 1,
              content |-> Slice(t, s + 1, e)]
    ELSE NoMatch

RECURSIVE ItalicMatches(_, _)
\* re.finditer(italic_pattern, text), scanning from offset pos
ItalicMatches(t, pos) ==
    IF pos >= Len(t) THEN <<>>
    ELSE LET m == ItalicMatchAt(t, pos)
         IN  IF m.start >= 0 THEN <<m>> \o ItalicMatches(t, m.end)
             ELSE ItalicMatches(t, pos + 1)

-----------------------------------------------------------------------------
(* WordExporter._add_formatted_text: regions *)

\* the test on both ends of the italic match instead of its start
InsideBoldWhole(m, rs) ==
    \E k \in 1..Len(rs) :
        rs[k].type = "bold" /\ rs[k].start < m.start /\ m.end < rs[k].end

\* inside_bold: the italic match starts strictly inside a bold region
InsideBold(m, rs) ==
    \E k \in 1..Len(rs) :
        rs[k].type = "bold" /\ rs[k].start < m.start /\ m.start < rs[k].end

RECURSIVE AppendItalics(_, _)
\* the loop over italic_matches, appending those not inside bold
AppendItalics(rs, ms) ==
    IF ms = <<>> THEN rs
    ELSE AppendItalics(IF InsideBold(Head(ms), rs) THEN rs ELSE Append(rs, Head(ms)),
                       Tail(ms))

RECURSIVE InsertByStart(_, _)
InsertByStart(sorted, r) ==
    IF sorted = <<>> THEN <<r>>
    ELSE IF r.start < Head(sorted).start THEN <<r>> \o sorted
    ELSE <<Head(sorted)>> \o InsertByStart(Tail(sorted), r)

RECURSIVE SortByStart(_)
\* regions.sort(key=lambda x: x['start']), a stable sort
SortByStart(rs) ==
    IF rs = <<>> THEN <<>>
    ELSE InsertByStart(SortByStart(SubSeq(rs, 1, Len(rs) - 1)), rs[Len(rs)])

\* the sorted region list built from the bold and the italic matches
BuildRegions(t) ==
    SortByStart(AppendItalics(BoldMatches(t, 0), ItalicMatches(t, 0)))

-----------------------------------------------------------------------------
(* WordExporter._add_formatted_text: runs *)

LongQuoteLen == 50

\* a run of the paragraph: its text and the formatting set on it
Run(txt, b, it, col) == [text |-> txt, bold |-> b, italic |-> it, color |-> col]

\* the plain run without the replace('*', '')
PlainRunKeepStars(t, a, b) ==
    IF Slice(t, a, b) /= <<>> THEN <<Run(Slice(t, a, b), FALSE, FALSE, "none")>>
    ELSE <<>>

\* text[a:b].replace('*', ''), added as a run when it is not empty
PlainRun(t, a, b) ==
    LET s == Remove(Slice(t, a, b), Star)
    IN  IF s /= <<>> THEN <<Run(s, FALSE, FALSE, "none")>> ELSE <<>>

\* the run added for a region: bold (blue for a Scripture reference) or
\* italic (gray for a long quote)
RegionRun(r) ==
    IF r.type = "bold"
    THEN Run(r.content, TRUE, FALSE,
             IF IsScriptureReference(r.content) THEN "blue" ELSE "none")
    ELSE Run(r.content, FALSE, TRUE,
             IF Len(r.content) > LongQuoteLen THEN "gray" ELSE "none")

\* one iteration of `for region in regions`: the runs it adds after rs
WalkRegion(t, rs, lp, r) ==
    (IF r.start > lp THEN rs \o PlainRun(t, lp, r.start) ELSE rs)
        \o <<RegionRun(r)>>

\* `if last_pos < len(text)`: the run for the remaining text
Remaining(t, rs, lp) ==
    IF lp < Len(t) THEN rs \o PlainRun(t, lp, Len(t)) ELSE rs

RECURSIVE WalkAll(_, _, _, _)
WalkAll(t, regs, rs, lp) ==
    IF regs = <<>> THEN Remaining(t, rs, lp)
    ELSE WalkAll(t, Tail(regs), WalkRegion(t, rs, lp, Head(regs)), Head(regs).end)

\* the runs _add_formatted_text adds to an empty paragraph for a line
AddFormattedText(t) == WalkAll(t, BuildRegions(t), <<>>, 0)

-----------------------------------------------------------------------------
(* Lines given to the span splitter *)

\* every non-empty line over {*, a} of at most MaxStarLen characters
StarLines == UNION {[1..k -> {Star, "a"}] : k \in 1..MaxStarLen}

Frags ==
    { <<"J","o","h","n">>, <<"s","o","n">>, <<"M","a","r","k">>,
      <<"e","t","i","n","g">>, <<"j","o","h","n">>, <<"3">>, <<":">>, <<"-">>,
      <<" ">> }

RECURSIVE Flatten(_)
Flatten(ss) == IF ss = <<>> THEN <<>> ELSE Head(ss) \o Flatten(Tail(ss))

\* lines `x **<fragments>** y`: a bold span made of up to MaxFrags fragments
FragLines ==
    { <<"x", " ", Star, Star>> \o Flatten(fs) \o <<Star, Star, " ", "y">> :
        fs \in UNION {[1..k -> Frags] : k \in 1..MaxFrags} }

\* "Read **John 3:16** tonight."
LineJohn ==
    <<"R","e","a","d"," ","*","*","J","o","h","n"," ","3",":","1","6","*","*",
      " ","t","o","n","i","g","h","t",".">>

\* "**Dr. Billy Wilson:** Welcome to **World Impact**."
LineWilson ==
    <<"*","*","D","r","."," ","B","i","l","l","y"," ","W","i","l","s","o","n",
      ":","*","*"," ","W","e","l","c","o","m","e"," ","t","o"," ","*","*","W",
      "o","r","l","d"," ","I","m","p","a","c","t","*","*",".">>

\* "**Marketing**"
LineMarketing ==
    <<"*","*","M","a","r","k","e","t","i","n","g","*","*">>

ScenarioLines == {LineJohn, LineWilson, LineMarketing}

SplitLines == StarLines \cup FragLines \cup ScenarioLines

-----------------------------------------------------------------------------
(* upload_file: requests, files and folders *)

\* the most requests handled at a time
MaxReqs == 2

Reqs == 1..MaxReqs

\* secure_filename(file.filename): base name and extension; two names share
\* the base name
Names == { <<"a", "txt">>, <<"a", "docx">>, <<"b", "txt">> }

\* the contents of the files uploaded
Datas == { "x", "y" }

\* a file that does not exist
Absent == [owner |-> 0, data |-> "none"]

\* a file written by request r
File(r, d) == [owner |-> r, data |-> d]

\* f"{base_name}_formatted.docx": the name of the output file of an upload
OutputName(filename) == <<filename[1], "formatted.docx">>

\* the names a folder can hold
FileNames == Names \cup { OutputName(n) : n \in Names }

\* an empty folder
NoFiles == [n \in FileNames |-> Absent]

\* a request before it is handled
NoRequest ==
    [app |-> "none", pc |-> "idle", filename |-> <<>>, data |-> "none",
     saved |-> FALSE, content |-> "none", formatted |-> "none", response |-> "none"]

NoRequests == [r \in Reqs |-> NoRequest]

-----------------------------------------------------------------------------
(* _add_formatted_text as a state machine: one call, step by step *)

InitSplit ==
    /\ text \in SplitLines
    /\ regions = <<>>
    /\ ridx = 0
    /\ last_pos = 0
    /\ runs = <<>>
    /\ spc = "find"
    /\ doc = <<>>
    /\ lines = <<>>
    /\ i = 0
    /\ pc = "idle"
    /\ front = "none"
    /\ content = <<>>
    /\ callbacks = <<>>
    /\ api_calls = 0
    /\ formatted = <<>>
    /\ exc = "none"
    /\ rendered = <<>>
    /\ response = "none"
    /\ calls = 0
    /\ title = <<>>
    /\ cleaned = <<>>
    /\ tried = <<>>
    /\ last_error = "none"
    /\ exc_msg = "none"
    /\ formatter_used = "none"
    /\ uploads = NoFiles
    /\ outputs = NoFiles
    /\ reqs = NoRequests

\* lines 140-172: the matches, the regions, the sort
FindRegions ==
    /\ spc = "find"
    /\ regions' = BuildRegions(text)
    /\ spc' = "walk"
    /\ UNCHANGED <<text, ridx, last_pos, runs>>
    /\ UNCHANGED exportVars
    /\ UNCHANGED frontVars
    /\ UNCHANGED moreVars
    /\ UNCHANGED uploadVars

\* lines 177-199: one iteration of `for region in regions`
WalkStep ==
    /\ spc = "walk"
    /\ ridx < Len(regions)
    /\ runs' = WalkRegion(text, runs, last_pos, regions[ridx + 1])
    /\ last_pos' = regions[ridx + 1].end
    /\ ridx' = ridx + 1
    /\ UNCHANGED <<text, regions, spc>>
    /\ UNCHANGED exportVars
    /\ UNCHANGED frontVars
    /\ UNCHANGED moreVars
    /\ UNCHANGED uploadVars

\* lines 201-205: the text after the last region
AddRemaining ==
    /\ spc = "walk"
    /\ ridx = Len(regions)
    /\ runs' = Remaining(text, runs, last_pos)
    /\ spc' = "done"
    /\ UNCHANGED <<text, regions, ridx, last_pos>>
    /\ UNCHANGED exportVars
    /\ UNCHANGED frontVars
    /\ UNCHANGED moreVars
    /\ UNCHANGED uploadVars

NextSplit == FindRegions \/ WalkStep \/ AddRemaining

SpecSplit == InitSplit /\ [][NextSplit]_vars

-----------------------------------------------------------------------------
(* WordExporter.export: the tests of the loop body *)

Newline == "\n"

RECURSIVE SplitNL(_)
\* formatted_text.split('\n')
SplitNL(t) ==
    IF \E k \in 1..Len(t) : t[k] = Newline
    THEN LET k == MinOf({j \in 1..Len(t) : t[j] = Newline})
         IN  <<SubSeq(t, 1, k - 1)>> \o SplitNL(SubSeq(t, k + 1, Len(t)))
    ELSE <<t>>

DividerMin == 10

DividerChars == {"_", "-"}

\* re.match(r'^[_\-]{10,}', line)
IsDivider(line) ==
    /\ Len(line) >= DividerMin
    /\ \A k \in 1..DividerMin : line[k] \in DividerChars

TitleLimit == 5

\* the title test without the paragraph count
IsTitleAnywhere(line, nparas) ==
    /\ StartsWith(line, <<Star, Star>>)
    /\ EndsWith(line, <<Star, Star>>)

\* line.startswith('**') and line.endswith('**') and len(self.doc.paragraphs) < 5
IsTitle(line, nparas) ==
    /\ StartsWith(line, <<Star, Star>>)
    /\ EndsWith(line, <<Star, Star>>)
    /\ nparas < TitleLimit

RECURSIVE PrefixIn(_, _)
\* the longest prefix of t whose characters are all in cs
PrefixIn(t, cs) ==
    IF t /= <<>> /\ Head(t) \in cs THEN <<Head(t)>> \o PrefixIn(Tail(t), cs) ELSE <<>>

RECURSIVE PrefixNotStar(_)
\* the longest prefix of t without '*'
PrefixNotStar(t) ==
    IF t /= <<>> /\ Head(t) /= Star THEN <<Head(t)>> \o PrefixNotStar(Tail(t)) ELSE <<>>

\* re.match(r'\*\*\d+\.\s+[^*]+\*\*', line)
IsHeader(line) ==
    /\ StartsWith(line, <<Star, Star>>)
    /\ LET d == Len(PrefixIn(SliceFrom(line, 2), Digits))
       IN  /\ d >= 1
           /\ Len(line) > 2 + d
           /\ Ch(line, 2 + d) = "."
           /\ LET rest == SliceFrom(line, 3 + d)
                  seg  == PrefixNotStar(rest)
              IN  /\ Len(seg) >= 2
                  /\ seg[1] \in Whitespace
                  /\ StartsWith(SliceFrom(rest, Len(seg)), <<Star, Star>>)

\* line.startswith(NOTE)
IsLyric(line) == StartsWith(line, <<Note>>)

\* the branch of the loop body taken for a stripped line when the document
\* holds nparas paragraphs
Classify(line, nparas) ==
    IF line = <<>> THEN "blank"
    ELSE IF IsDivider(line) THEN "rule"
    ELSE IF IsTitle(line, nparas) THEN "title"
    ELSE IF IsHeader(line) THEN "heading"
    ELSE IF IsLyric(line) THEN "lyric"
    ELSE "plain"

-----------------------------------------------------------------------------
(* WordExporter.export: the paragraphs *)

Para(k, al, sa, rs) == [kind |-> k, align |-> al, space_after |-> sa, runs |-> rs]

\* self.doc.add_paragraph()
BlankPara == Para("blank", "inherit", "inherit", <<>>)

\* self._add_horizontal_line()
RulePara == Para("rule", "inherit", "inherit", <<>>)

\* lines 89-98: the title paragraph
TitlePara(line) ==
    Para("title", "center", "12pt",
         <<Run(Strip(line, {Star}), TRUE, FALSE, "none")>>)

\* lines 104-105: self.doc.add_heading(header_text, level=1)
HeadingPara(line) ==
    Para("heading", "inherit", "inherit",
         <<Run(Strip(line, {Star}), FALSE, FALSE, "none")>>)

NoteOnly == { <<Note, Note, Note>>, <<Note, " ", Note, " ", Note>> }

\* lines 111-125: the lyric paragraph
LyricPara(line) ==
    LET lyric_text == Strip(RStrip(line, {Note}), Whitespace)
    IN  IF lyric_text \in NoteOnly
        THEN Para("lyric", "center", "0pt", <<Run(lyric_text, FALSE, FALSE, "none")>>)
        ELSE Para("lyric", "left", "0pt", <<Run(lyric_text, FALSE, TRUE, "gray")>>)

\* lines 130-131: a paragraph with inline formatting
PlainPara(line) == Para("plain", "inherit", "inherit", AddFormattedText(line))

-----------------------------------------------------------------------------
(* Texts given to export *)

Rep(c, n) == [k \in 1..n |-> c]

DashLines ==
    { Rep("-", 10), Rep("-", 9), Rep("_", 10), Rep("-", 11),
      Rep("-", 10) \o <<"a">>, <<" ">> \o Rep("-", 10), Rep(BoxDash, 10) }

BoldLines ==
    { <<Star, Star, "T", Star, Star>>, <<Star, Star>>, <<Star, Star, Star>>,
      <<Star, Star, Star, Star>>, <<Star, Star, "a", Star, "b", Star, Star>>,
      <<Star, Star, "1", ".", " ", "A", Star, Star>>,
      <<Star, Star, "1", ".", " ", "A", Star, Star, " ", "b">>,
      <<Star, Star, "1", ".", " ", "A", Star, Star, " ", Star, "b", Star>>,
      <<Star, Star, "1", ".", "A", Star, Star, "b">>,
      <<"1", ".", " ", "A">> }

LyricLines ==
    { <<Note>>, <<Note, " ", "a", " ", Note>>, <<Note, Note, Note>>,
      <<Note, " ", Note, " ", Note>>, <<Note, " ", Star, "a", Star>> }

ProseLines ==
    { <<>>, <<" ">>, <<"a">>, <<" ", "a", " ">>, <<Star, "a", Star>>,
      <<Star, Star, "a", Star, Star, " ", "b">>, <<"a", Star>>,
      LineJohn, LineWilson }

ExportLines == DashLines \cup BoldLines \cup LyricLines \cup ProseLines

RECURSIVE JoinNL(_)
\* the text whose lines are ls
JoinNL(ls) ==
    IF Len(ls) = 1 THEN ls[1] ELSE ls[1] \o <<Newline>> \o JoinNL(Tail(ls))

\* the lines that fill the head of a text: plain, blank, divider, wrapped
FillLines == { <<"a">>, <<>>, Rep("-", 10), <<Star, Star, "T", Star, Star>> }

\* two dividers separated by a blank line, before a blank line and a title
\* line: with the dividers the exporter knows, and with box-drawing ones
ScenarioTexts ==
    { JoinNL(<<Rep(d, 10), <<>>, Rep(d, 10), <<>>, <<"T">>>>) : d \in {"-", BoxDash} }

\* up to MaxFill equal filling lines followed by one to MaxTail lines of any
\* kind, or up to MaxFill plain lines followed by one line over {*, a}, or a
\* scenario text
Texts ==
    { JoinNL(Rep(f, k) \o tl) :
        f \in FillLines, k \in 0..MaxFill,
        tl \in UNION {[1..n -> ExportLines] : n \in 1..MaxTail} }
    \cup { JoinNL(Rep(<<"a">>, k) \o <<l>>) : k \in 0..MaxFill, l \in StarLines }
    \cup ScenarioTexts

-----------------------------------------------------------------------------
(* WordExporter: construction and one export call, line by line *)

\* __init__: a new Document() has no paragraph
Init ==
    /\ doc = <<>>
    /\ lines = <<>>
    /\ i = 0
    /\ pc = "idle"
    /\ text = <<>>
    /\ regions = <<>>
    /\ ridx = 0
    /\ last_pos = 0
    /\ runs = <<>>
    /\ spc = "idle"
    /\ front = "none"
    /\ content = <<>>
    /\ callbacks = <<>>
    /\ api_calls = 0
    /\ formatted = <<>>
    /\ exc = "none"
    /\ rendered = <<>>
    /\ response = "none"
    /\ calls = 0
    /\ title = <<>>
    /\ cleaned = <<>>
    /\ tried = <<>>
    /\ last_error = "none"
    /\ exc_msg = "none"
    /\ formatter_used = "none"
    /\ uploads = NoFiles
    /\ outputs = NoFiles
    /\ reqs = NoRequests

\* line 69-70: export(formatted_text, output_path) is called
CallExport ==
    /\ pc = "idle"
    /\ \E ft \in Texts : lines' = SplitNL(ft)
    /\ i' = 0
    /\ pc' = "loop"
    /\ calls' = calls + 1
    /\ UNCHANGED doc
    /\ UNCHANGED splitVars
    /\ UNCHANGED frontVars
    /\ UNCHANGED <<title, cleaned, tried, last_error, exc_msg, formatter_used>>
    /\ UNCHANGED uploadVars

\* line 73
CurLine == Strip(lines[i + 1], Whitespace)

InLoop(kind) ==
    /\ pc = "loop"
    /\ i < Len(lines)
    /\ Classify(CurLine, Len(doc)) = kind

\* a variant that skips a blank line without adding a paragraph
ExportBlankSkip ==
    /\ InLoop("blank")
    /\ i' = i + 1
    /\ UNCHANGED <<doc, lines, pc>>
    /\ UNCHANGED splitVars
    /\ UNCHANGED frontVars
    /\ UNCHANGED moreVars
    /\ UNCHANGED uploadVars

\* a variant that adds no second empty paragraph after an empty one
ExportBlankCoalesce ==
    /\ InLoop("blank")
    /\ doc' = IF doc /= <<>> /\ doc[Len(doc)] = BlankPara THEN doc ELSE Append(doc, BlankPara)
    /\ i' = i + 1
    /\ UNCHANGED <<lines, pc>>
    /\ UNCHANGED splitVars
    /\ UNCHANGED frontVars
    /\ UNCHANGED moreVars
    /\ UNCHANGED uploadVars

\* lines 76-79
ExportBlank ==
    /\ InLoop("blank")
    /\ doc' = Append(doc, BlankPara)
    /\ i' = i + 1
    /\ UNCHANGED <<lines, pc>>
    /\ UNCHANGED splitVars
    /\ UNCHANGED frontVars
    /\ UNCHANGED moreVars
    /\ UNCHANGED uploadVars

\* a variant that adds a spacing paragraph after the rule
ExportDividerSpaced ==
    /\ InLoop("rule")
    /\ doc' = doc \o <<RulePara, BlankPara>>
    /\ i' = i + 1
    /\ UNCHANGED <<lines, pc>>
    /\ UNCHANGED splitVars
    /\ UNCHANGED frontVars
    /\ UNCHANGED moreVars
    /\ UNCHANGED uploadVars

\* lines 82-85
ExportDivider ==
    /\ InLoop("rule")
    /\ doc' = Append(doc, RulePara)
    /\ i' = i + 1
    /\ UNCHANGED <<lines, pc>>
    /\ UNCHANGED splitVars
    /\ UNCHANGED frontVars
    /\ UNCHANGED moreVars
    /\ UNCHANGED uploadVars

\* lines 88-100
ExportTitle ==
    /\ InLoop("title")
    /\ doc' = Append(doc, TitlePara(CurLine))
    /\ i' = i + 1
    /\ UNCHANGED <<lines, pc>>
    /\ UNCHANGED splitVars
    /\ UNCHANGED frontVars
    /\ UNCHANGED moreVars
    /\ UNCHANGED uploadVars

\* lines 103-107
ExportHeading ==
    /\ InLoop("heading")
    /\ doc' = Append(doc, HeadingPara(CurLine))
    /\ i' = i + 1
    /\ UNCHANGED <<lines, pc>>
    /\ UNCHANGED splitVars
    /\ UNCHANGED frontVars
    /\ UNCHANGED moreVars
    /\ UNCHANGED uploadVars

\* lines 110-127
ExportLyric ==
    /\ InLoop("lyric")
    /\ doc' = Append(doc, LyricPara(CurLine))
    /\ i' = i + 1
    /\ UNCHANGED <<lines, pc>>
    /\ UNCHANGED splitVars
    /\ UNCHANGED frontVars
    /\ UNCHANGED moreVars
    /\ UNCHANGED uploadVars

\* lines 130-132
ExportPlain ==
    /\ InLoop("plain")
    /\ doc' = Append(doc, PlainPara(CurLine))
    /\ i' = i + 1
    /\ UNCHANGED <<lines, pc>>
    /\ UNCHANGED splitVars
    /\ UNCHANGED frontVars
    /\ UNCHANGED moreVars
    /\ UNCHANGED uploadVars

\* lines 134-135: the loop is over, the document is saved
Save ==
    /\ pc = "loop"
    /\ i >= Len(lines)
    /\ pc' = "saved"
    /\ UNCHANGED <<doc, lines, i>>
    /\ UNCHANGED splitVars
    /\ UNCHANGED frontVars
    /\ UNCHANGED moreVars
    /\ UNCHANGED uploadVars

Next ==
    \/ CallExport
    \/ ExportBlank
    \/ ExportDivider
    \/ ExportTitle
    \/ ExportHeading
    \/ ExportLyric
    \/ ExportPlain
    \/ Save

Spec == Init /\ [][Next]_vars

-----------------------------------------------------------------------------
(* WordExporter: several export calls on one exporter *)

\* the most export calls made on one exporter
MaxCalls == 2

\* the texts of the calls: up to MaxFill plain lines, then a plain, blank,
\* wrapped, divider, numbered or lyric line
TwiceTexts ==
    { JoinNL(Rep(<<"a">>, k) \o <<l>>) :
        k \in 0..MaxFill,
        l \in { <<"a">>, <<>>, <<Star, Star, "T", Star, Star>>, Rep("-", 10),
                <<Star, Star, "1", ".", " ", "A", Star, Star, " ", "b">>,
                <<Note, " ", "a", " ", Note>> } }

\* lines 69-70: export(formatted_text, output_path) is called on an exporter
\* that is new or has saved a document before; self.doc is the one of
\* __init__ (lines 9-13)
ExportCall ==
    /\ pc \in {"idle", "saved"}
    /\ calls < MaxCalls
    /\ \E ft \in TwiceTexts : lines' = SplitNL(ft)
    /\ i' = 0
    /\ pc' = "loop"
    /\ calls' = calls + 1
    /\ UNCHANGED doc
    /\ UNCHANGED splitVars
    /\ UNCHANGED frontVars
    /\ UNCHANGED <<title, cleaned, tried, last_error, exc_msg, formatter_used>>
    /\ UNCHANGED uploadVars

NextTwice ==
    \/ ExportCall
    \/ ExportBlank
    \/ ExportDivider
    \/ ExportTitle
    \/ ExportHeading
    \/ ExportLyric
    \/ ExportPlain
    \/ Save

SpecTwice == Init /\ [][NextTwice]_vars

-----------------------------------------------------------------------------
(* web_app.py, create_word_document: the tests of the loop *)

\* ^[A-Za-z\s\(\)]+:$
WebIsSpeaker(line) ==
    /\ Len(line) >= 2
    /\ line[Len(line)] = ":"
    /\ \A k \in 1..(Len(line) - 1) : line[k] \in Letters \cup Whitespace \cup {"(", ")"}

\* ^\d+\.\s+.+
WebIsSection(line) ==
    LET d == Len(PrefixIn(line, Digits))
    IN  /\ d >= 1
        /\ Len(line) >= d + 3
        /\ Ch(line, d) = "."
        /\ Ch(line, d + 1) \in Whitespace

\* the book names of scripture_pattern, in its order
web_books ==
    { <<"G","e","n","e","s","i","s">>,
      <<"E","x","o","d","u","s">>,
      <<"L","e","v","i","t","i","c","u","s">>,
      <<"N","u","m","b","e","r","s">>,
      <<"D","e","u","t","e","r","o","n","o","m","y">>,
      <<"J","o","s","h","u","a">>,
      <<"J","u","d","g","e","s">>,
      <<"R","u","t","h">>,
      <<"1"," ","S","a","m","u","e","l">>,
      <<"2"," ","S","a","m","u","e","l">>,
      <<"1"," ","K","i","n","g","s">>,
      <<"2"," ","K","i","n","g","s">>,
      <<"1"," ","C","h","r","o","n","i","c","l","e","s">>,
      <<"2"," ","C","h","r","o","n","i","c","l","e","s">>,
      <<"E","z","r","a">>,
      <<"N","e","h","e","m","i","a","h">>,
      <<"E","s","t","h","e","r">>,
      <<"J","o","b">>,
      <<"P","s","a","l","m">>,
      <<"P","s","a","l","m","s">>,
      <<"P","r","o","v","e","r","b","s">>,
      <<"E","c","c","l","e","s","i","a","s","t","e","s">>,
      <<"S","o","n","g"," ","o","f"," ","S","o","n","g","s">>,
      <<"I","s","a","i","a","h">>,
      <<"J","e","r","e","m","i","a","h">>,
      <<"L","a","m","e","n","t","a","t","i","o","n","s">>,
      <<"E","z","e","k","i","e","l">>,
      <<"D","a","n","i","e","l">>,
      <<"H","o","s","e","a">>,
      <<"J","o","e","l">>,
      <<"A","m","o","s">>,
      <<"O","b","a","d","i","a","h">>,
      <<"J","o","n","a","h">>,
      <<"M","i","c","a","h">>,
      <<"N","a","h","u","m">>,
      <<"H","a","b","a","k","k","u","k">>,
      <<"Z","e","p","h","a","n","i","a","h">>,
      <<"H","a","g","g","a","i">>,
      <<"Z","e","c","h","a","r","i","a","h">>,
      <<"M","a","l","a","c","h","i">>,
      <<"M","a","t","t","h","e","w">>,
      <<"M","a","r","k">>,
      <<"L","u","k","e">>,
      <<"J","o","h","n">>,
      <<"A","c","t","s">>,
      <<"R","o","m","a","n","s">>,
      <<"1"," ","C","o","r","i","n","t","h","i","a","n","s">>,
      <<"2"," ","C","o","r","i","n","t","h","i","a","n","s">>,
      <<"G","a","l","a","t","i","a","n","s">>,
      <<"E","p","h","e","s","i","a","n","s">>,
      <<"P","h","i","l","i","p","p","i","a","n","s">>,
      <<"C","o","l","o","s","s","i","a","n","s">>,
      <<"1"," ","T","h","e","s","s","a","l","o","n","i","a","n","s">>,
      <<"2"," ","T","h","e","s","s","a","l","o","n","i","a","n","s">>,
      <<"1"," ","T","i","m","o","t","h","y">>,
      <<"2"," ","T","i","m","o","t","h","y">>,
      <<"T","i","t","u","s">>,
      <<"P","h","i","l","e","m","o","n">>,
      <<"H","e","b","r","e","w","s">>,
      <<"J","a","m","e","s">>,
      <<"1"," ","P","e","t","e","r">>,
      <<"2"," ","P","e","t","e","r">>,
      <<"1"," ","J","o","h","n">>,
      <<"2"," ","J","o","h","n">>,
      <<"3"," ","J","o","h","n">>,
      <<"J","u","d","e">>,
      <<"R","e","v","e","l","a","t","i","o","n">> }

\* \w
WordChars == Letters \cup Digits \cup {"_"}

IsWordAt(t, k) == k >= 0 /\ k < Len(t) /\ Ch(t, k) \in WordChars

\* \b at offset k of t
Boundary(t, k) == IsWordAt(t, k - 1) /= IsWordAt(t, k)

\* the end offset of "book \s+ \d+ : \d+ (--\d+)? \b" at offset s of t, or -1.
\* Every quantifier is greedy; a shorter run of digits is followed by a
\* digit, where \b fails, so the only match shorter than the longest one
\* is the one without the "--digits" part.
RefEndWith(t, s, book) ==
    IF ~StartsWith(SliceFrom(t, s), book) THEN -1
    ELSE
      LET p1 == s + Len(book)
          w  == Len(PrefixIn(SliceFrom(t, p1), Whitespace))
          p2 == p1 + w
          d1 == Len(PrefixIn(SliceFrom(t, p2), Digits))
          p3 == p2 + d1 + 1
          d2 == Len(PrefixIn(SliceFrom(t, p3), Digits))
          p4 == p3 + d2
          d3 == IF StartsWith(SliceFrom(t, p4), <<"-", "-">>)
                THEN Len(PrefixIn(SliceFrom(t, p4 + 2), Digits)) ELSE 0
          p5 == p4 + 2 + d3
      IN  IF w = 0 \/ d1 = 0 \/ p2 + d1 >= Len(t) THEN -1
          ELSE IF Ch(t, p2 + d1) /= ":" \/ d2 = 0 THEN -1
          ELSE IF d3 >= 1 /\ Boundary(t, p5) THEN p5
          ELSE IF Boundary(t, p4) THEN p4
          ELSE -1

\* the match of scripture_pattern that starts at offset s of t, if any: two
\* names of the list match at the same offset only when one is a prefix of
\* the other (Psalm, Psalms), and then \s+ lets one of them go on
RefMatchAt(t, s) ==
    LET ends == { RefEndWith(t, s, b) : b \in web_books } \ {-1}
    IN  IF Boundary(t, s) /\ ends /= {}
        THEN [start |-> s, end |-> CHOOSE e \in ends : TRUE]
        ELSE NoMatch

RECURSIVE RefMatches(_, _)
\* the matches re.split finds from offset pos on: leftmost first, the search
\* going on at the end of each match
RefMatches(t, pos) ==
    LET starts == { s \in pos..(Len(t) - 1) : RefMatchAt(t, s) /= NoMatch }
    IN  IF starts = {} THEN <<>>
        ELSE LET m == RefMatchAt(t, MinOf(starts))
             IN  <<m>> \o RefMatches(t, m.end)

RECURSIVE SplitParts(_, _, _)
\* re.split(scripture_pattern, line): the text before each match, the match
\* (the pattern is one capturing group), and the text after the last match
SplitParts(t, ms, pos) ==
    IF ms = <<>> THEN <<SliceFrom(t, pos)>>
    ELSE <<Slice(t, pos, Head(ms).start), Slice(t, Head(ms).start, Head(ms).end)>>
            \o SplitParts(t, Tail(ms), Head(ms).end)

\* re.match(scripture_pattern, part)
WebIsRef(part) == RefMatchAt(part, 0) /= NoMatch

-----------------------------------------------------------------------------
(* web_app.py, create_word_document: the paragraphs *)

WebRun(txt, b, it, ul, col, sz) ==
    [text |-> txt, bold |-> b, italic |-> it, underline |-> ul, color |-> col, size |-> sz]

WebPara(k, al, rs) == [kind |-> k, align |-> al, runs |-> rs]

\* a paragraph the template document brings along
TemplatePara == WebPara("template", "inherit", <<>>)

\* lines 420-430: the title paragraph
WebTitlePara(document_title) ==
    WebPara("title", "center", <<WebRun(document_title, TRUE, FALSE, TRUE, "none", 20)>>)

\* doc.add_paragraph() and doc.add_paragraph(''): a paragraph without a run
WebBlankPara == WebPara("blank", "inherit", <<>>)

\* lines 447, 452-455
WebSpeakerPara(line) ==
    WebPara("speaker", "inherit", <<WebRun(line, TRUE, FALSE, FALSE, "none", 12)>>)

\* lines 447, 460-463
WebSectionPara(line) ==
    WebPara("section", "inherit", <<WebRun(line, TRUE, FALSE, FALSE, "none", 12)>>)

RECURSIVE PartRuns(_)
\* lines 472-487: a run for every part that is not empty, bold for a reference
PartRuns(parts) ==
    IF parts = <<>> THEN <<>>
    ELSE (IF Head(parts) = <<>> THEN <<>>
          ELSE <<WebRun(Head(parts), WebIsRef(Head(parts)), FALSE, FALSE, "none", 12)>>)
         \o PartRuns(Tail(parts))

\* lines 447, 468-487
WebRegularPara(line) ==
    WebPara("regular", "inherit", PartRuns(SplitParts(line, RefMatches(line, 0), 0)))

license_text ==
    <<"T","h","i","s"," ","c","o","n","t","e","n","t"," ","a","v","a","i","l",
      "a","b","l","e"," ","f","o","r"," ","u","s","e"," ","u","n","d","e","r",
      " ","a"," ","C","r","e","a","t","i","v","e"," ","C","o","m","m","o","n",
      "s"," ","A","t","t","r","i","b","u","t","i","o","n","-","N","o","n","C",
      "o","m","m","e","r","c","i","a","l"," ","l","i","c","e","n","s","e",".">>

\* lines 517-527: the license paragraph
LicensePara ==
    WebPara("license", "center", <<WebRun(license_text, FALSE, TRUE, FALSE, "gray", 10)>>)

\* a variant that adds the license only after a body that is not empty
LicenseTailIfBody ==
    IF lines = <<>> \/ \A k \in 1..Len(lines) : Strip(lines[k], Whitespace) = <<>>
    THEN <<>> ELSE <<WebBlankPara, WebBlankPara, LicensePara>>

\* lines 513-527: two paragraphs without text, then the license paragraph
LicenseTail == <<WebBlankPara, WebBlankPara, LicensePara>>

\* lines 402-412: the 0-based index of the first line that, stripped, is not
\* empty and does not start with the box-drawing dash, or -1
TitleLineIndex(text_lines) ==
    LET found == { k \in 1..Len(text_lines) :
                      LET l == Strip(text_lines[k], Whitespace)
                      IN  l /= <<>> /\ ~StartsWith(l, <<BoxDash>>) }
    IN  IF found = {} THEN -1 ELSE MinOf(found) - 1

\* '\n'.join(ls): the join of no line is the empty text
JoinAll(ls) == IF ls = <<>> THEN <<>> ELSE JoinNL(ls)

\* a variant that keeps the title line in the body
BodyLinesWithTitle(text_lines) ==
    LET k == TitleLineIndex(text_lines)
    IN  IF k >= 0
        THEN SplitNL(JoinAll(SubSeq(text_lines, k + 1, Len(text_lines))))
        ELSE SplitNL(JoinAll(text_lines))

\* lines 415-417 and 436: the lines of the body
BodyLines(text_lines) ==
    LET k == TitleLineIndex(text_lines)
    IN  IF k >= 0
        THEN SplitNL(JoinAll(SubSeq(text_lines, k + 2, Len(text_lines))))
        ELSE SplitNL(JoinAll(text_lines))

\* lines 403, 410: the title given, or the title line when there is one
DocumentTitle(text_lines, given) ==
    LET k == TitleLineIndex(text_lines)
    IN  IF k >= 0 THEN Strip(text_lines[k + 1], Whitespace) ELSE given

-----------------------------------------------------------------------------
(* Texts given to create_word_document *)

WebLines ==
    { <<>>, Rep(BoxDash, 10), license_text,
      <<"a">>,
      <<"H",":">>,
      <<"A"," ","b",":">>,
      <<"(","A",")",":">>,
      <<"H",":"," ","b">>,
      <<":">>,
      <<"1","."," ","A">>,
      <<"*","*","1","."," ","A","*","*">>,
      <<"1",".","A">>,
      <<"1","2","."," ","A"," ","b">>,
      <<"J","o","h","n"," ","3",":","1","6">>,
      <<"R","e","a","d"," ","J","o","h","n"," ","3",":","1","6"," ","n","o","w">>,
      <<"J","o","h","n"," ","3",":","1","6","-","-","1","8">>,
      <<"J","o","h","n"," ","3",":","1","6","a">>,
      <<"x","J","o","h","n"," ","3",":","1","6">>,
      <<"P","s","a","l","m","s"," ","1",":","1">>,
      <<"1"," ","J","o","h","n"," ","2",":","3">>,
      <<"J","o","h","n"," ","3",":","1","6","-","-","1","8","x">>,
      <<"J","o","h","n"," ","3",":","1","6"," ","M","a","r","k"," ","1",":","1">>,
      <<"*","*","H",":","*","*">>,
      <<"J","o","b"," ","3",":","1","6","-","-","x">>,
      <<"J","o","h","n"," "," ","3",":","1","6">>,
      <<"J","o","h","n"," ","3",":">>,
      <<"M","a","r","k","e","t","i","n","g"," ","1",":","1">> }

\* the lines that fill the head of a text: plain, blank, box divider, speaker
WebFillLines == { <<"a">>, <<>>, Rep(BoxDash, 10), <<"H", ":">> }

WebTexts ==
    { JoinNL(Rep(f, k) \o tl) :
        f \in WebFillLines, k \in 0..MaxFill,
        tl \in UNION {[1..n -> WebLines] : n \in 1..MaxTail} }
    \cup ScenarioTexts

\* the title argument
WebTitles == { <<"t">>, <<>> }

-----------------------------------------------------------------------------
(* web_app.py, create_word_document: one call, line by line *)

\* lines 383-436: python-docx is there; the document is opened, from the
\* template (which may bring paragraphs along) or new; title paragraph and
\* the paragraph after it are added, and the body is split into lines
WebCall ==
    /\ pc = "idle"
    /\ \E formatted_text \in WebTexts, given \in WebTitles, tpl \in 0..1 :
          LET text_lines == SplitNL(formatted_text)
          IN  /\ formatted' = formatted_text
              /\ title' = given
              /\ doc' = Rep(TemplatePara, tpl)
                          \o <<WebTitlePara(DocumentTitle(text_lines, given)), WebBlankPara>>
              /\ lines' = BodyLines(text_lines)
    /\ i' = 0
    /\ pc' = "webloop"
    /\ UNCHANGED splitVars
    /\ UNCHANGED <<front, content, callbacks, api_calls, exc, rendered, response>>
    /\ UNCHANGED <<calls, cleaned, tried, last_error, exc_msg, formatter_used>>
    /\ UNCHANGED uploadVars

\* lines 383, 533-538: python-docx is missing; the text is written to a .txt
\* file and no document is built
WebImportError ==
    /\ pc = "idle"
    /\ pc' = "txt"
    /\ UNCHANGED <<doc, lines, i>>
    /\ UNCHANGED splitVars
    /\ UNCHANGED frontVars
    /\ UNCHANGED moreVars
    /\ UNCHANGED uploadVars

\* the branch of the loop body taken for a stripped line
WebClassify(line) ==
    IF line = <<>> THEN "blank"
    ELSE IF WebIsSpeaker(line) THEN "speaker"
    ELSE IF WebIsSection(line) THEN "section"
    ELSE "regular"

InWebLoop(kind) ==
    /\ pc = "webloop"
    /\ i < Len(lines)
    /\ WebClassify(CurLine) = kind

\* lines 441-444
WebBlank ==
    /\ InWebLoop("blank")
    /\ doc' = Append(doc, WebBlankPara)
    /\ i' = i + 1
    /\ UNCHANGED <<lines, pc>>
    /\ UNCHANGED splitVars
    /\ UNCHANGED frontVars
    /\ UNCHANGED moreVars
    /\ UNCHANGED uploadVars

\* lines 447-455
WebSpeaker ==
    /\ InWebLoop("speaker")
    /\ doc' = Append(doc, WebSpeakerPara(CurLine))
    /\ i' = i + 1
    /\ UNCHANGED <<lines, pc>>
    /\ UNCHANGED splitVars
    /\ UNCHANGED frontVars
    /\ UNCHANGED moreVars
    /\ UNCHANGED uploadVars

\* lines 447, 458-463
WebSection ==
    /\ InWebLoop("section")
    /\ doc' = Append(doc, WebSectionPara(CurLine))
    /\ i' = i + 1
    /\ UNCHANGED <<lines, pc>>
    /\ UNCHANGED splitVars
    /\ UNCHANGED frontVars
    /\ UNCHANGED moreVars
    /\ UNCHANGED uploadVars

\* lines 447, 465-487
WebRegular ==
    /\ InWebLoop("regular")
    /\ doc' = Append(doc, WebRegularPara(CurLine))
    /\ i' = i + 1
    /\ UNCHANGED <<lines, pc>>
    /\ UNCHANGED splitVars
    /\ UNCHANGED frontVars
    /\ UNCHANGED moreVars
    /\ UNCHANGED uploadVars

\* lines 489-531: the loop is over; the page footer is set, the license
\* paragraphs are added and the document is saved
WebFinish ==
    /\ pc = "webloop"
    /\ i >= Len(lines)
    /\ doc' = doc \o LicenseTail
    /\ pc' = "saved"
    /\ UNCHANGED <<lines, i>>
    /\ UNCHANGED splitVars
    /\ UNCHANGED frontVars
    /\ UNCHANGED moreVars
    /\ UNCHANGED uploadVars

NextWeb ==
    \/ WebCall
    \/ WebImportError
    \/ WebBlank
    \/ WebSpeaker
    \/ WebSection
    \/ WebRegular
    \/ WebFinish

SpecWeb == Init /\ [][NextWeb]_vars

-----------------------------------------------------------------------------
(* api/index.py, handler.do_POST: the document of the response *)

\* str.strip() of a text that may hold line ends
StripAll(t) == Strip(t, Whitespace \cup {Newline})

RECURSIVE SplitBlankLine(_)
\* formatted_text.split('\n\n')
SplitBlankLine(t) ==
    LET cuts == { k \in 0..(Len(t) - 2) : Slice(t, k, k + 2) = <<Newline, Newline>> }
    IN  IF cuts = {} THEN <<t>>
        ELSE <<Slice(t, 0, MinOf(cuts))>> \o SplitBlankLine(SliceFrom(t, MinOf(cuts) + 2))

\* the offset of the first ':' of t (t holds one)
FirstColon(t) == MinOf({ k \in 0..(Len(t) - 1) : Ch(t, k) = ":" })

SpeakerLimit == 50

\* ':' in para_text and len(para_text.split(':')[0]) < 50
ApiIsSpeaker(para_text) ==
    /\ Contains(para_text, <<":">>)
    /\ FirstColon(para_text) < SpeakerLimit

\* doc.add_heading('Formatted Transcript', 0)
ApiHeadingPara ==
    Para("heading", "inherit", "inherit",
         <<Run(<<"F","o","r","m","a","t","t","e","d"," ","T","r","a","n","s",
                 "c","r","i","p","t">>, FALSE, FALSE, "none")>>)

\* lines 699-704: the text up to the first colon in a bold run, then a
\* space and the stripped rest in a second run
ApiSpeakerPara(para_text) ==
    LET c == FirstColon(para_text)
    IN  Para("speaker", "inherit", "inherit",
             << Run(Slice(para_text, 0, c) \o <<":">>, TRUE, FALSE, "none"),
                Run(<<" ">> \o StripAll(SliceFrom(para_text, c + 1)), FALSE, FALSE, "none") >>)

\* line 706: doc.add_paragraph(para_text.strip())
ApiTextPara(para_text) ==
    Para("plain", "inherit", "inherit", <<Run(StripAll(para_text), FALSE, FALSE, "none")>>)

\* the paragraphs of a formatted text
ApiParas ==
    { <<>>, Rep("a", SpeakerLimit) \o <<":">>, Rep("a", SpeakerLimit - 1) \o <<":">>,
      <<"a">>,
      <<"B","o","b",":">>,
      <<"B","o","b",":"," ","h","i">>,
      <<"B","o","b"," ","(","A",")",":"," ","h","i">>,
      <<" ">>,
      <<"a","\n","b",":"," ","c">>,
      <<"x",":"," ","y",":"," ","z">>,
      <<":">>,
      <<"*","*","B","o","b",":","*","*"," ","h","i">>,
      <<"1","0",":","3","0"," ","n","o","w">>,
      <<"D","r","."," ","B",":"," "," ","h","i"," ">>,
      <<"\n","B","o","b",":">> }

ApiFillParas == { <<"a">>, <<>>, <<"B", "o", "b", ":", " ", "h", "i">> }

RECURSIVE JoinBlankLine(_)
JoinBlankLine(ps) ==
    IF Len(ps) = 1 THEN ps[1]
    ELSE ps[1] \o <<Newline, Newline>> \o JoinBlankLine(Tail(ps))

ApiTexts ==
    { JoinBlankLine(Rep(f, k) \o tl) :
        f \in ApiFillParas, k \in 0..MaxFill,
        tl \in UNION {[1..n -> ApiParas] : n \in 1..MaxTail} }

\* lines 608-692: the request is well-formed, the key is set and the model
\* answers with formatted_text; the document starts with its heading
ApiPost ==
    /\ pc = "idle"
    /\ \E formatted_text \in ApiTexts : lines' = SplitBlankLine(formatted_text)
    /\ doc' = <<ApiHeadingPara>>
    /\ i' = 0
    /\ pc' = "apiloop"
    /\ UNCHANGED splitVars
    /\ UNCHANGED frontVars
    /\ UNCHANGED moreVars
    /\ UNCHANGED uploadVars

\* lines 612-614, 629-642, 656-658, 720-721: the request is refused or the
\* work raises; an error is sent and no document
ApiError ==
    /\ pc = "idle"
    /\ pc' = "error"
    /\ UNCHANGED <<doc, lines, i>>
    /\ UNCHANGED splitVars
    /\ UNCHANGED frontVars
    /\ UNCHANGED moreVars
    /\ UNCHANGED uploadVars

InApiLoop == pc = "apiloop" /\ i < Len(lines)

\* line 697: a paragraph that is empty when stripped is skipped
ApiSkip ==
    /\ InApiLoop
    /\ StripAll(lines[i + 1]) = <<>>
    /\ i' = i + 1
    /\ UNCHANGED <<doc, lines, pc>>
    /\ UNCHANGED splitVars
    /\ UNCHANGED frontVars
    /\ UNCHANGED moreVars
    /\ UNCHANGED uploadVars

\* lines 698-704
ApiSpeaker ==
    /\ InApiLoop
    /\ StripAll(lines[i + 1]) /= <<>>
    /\ ApiIsSpeaker(lines[i + 1])
    /\ doc' = Append(doc, ApiSpeakerPara(lines[i + 1]))
    /\ i' = i + 1
    /\ UNCHANGED <<lines, pc>>
    /\ UNCHANGED splitVars
    /\ UNCHANGED frontVars
    /\ UNCHANGED moreVars
    /\ UNCHANGED uploadVars

\* lines 705-706
ApiParagraph ==
    /\ InApiLoop
    /\ StripAll(lines[i + 1]) /= <<>>
    /\ ~ApiIsSpeaker(lines[i + 1])
    /\ doc' = Append(doc, ApiTextPara(lines[i + 1]))
    /\ i' = i + 1
    /\ UNCHANGED <<lines, pc>>
    /\ UNCHANGED splitVars
    /\ UNCHANGED frontVars
    /\ UNCHANGED moreVars
    /\ UNCHANGED uploadVars

\* lines 708-718: the document is saved and sent
ApiSend ==
    /\ pc = "apiloop"
    /\ i >= Len(lines)
    /\ pc' = "saved"
    /\ UNCHANGED <<doc, lines, i>>
    /\ UNCHANGED splitVars
    /\ UNCHANGED frontVars
    /\ UNCHANGED moreVars
    /\ UNCHANGED uploadVars

NextApi ==
    \/ ApiPost
    \/ ApiError
    \/ ApiSkip
    \/ ApiSpeaker
    \/ ApiParagraph
    \/ ApiSend

SpecApi == Init /\ [][NextApi]_vars

-----------------------------------------------------------------------------
(* From a transcript to a document: the front ends and format_transcript *)

\* the longest transcript read
MaxContent == 3

\* the largest number of pieces of an answer of the model
MaxChunks == 2

RECURSIVE TextsOver(_, _)
\* the texts of length n over the characters cs
TextsOver(cs, n) ==
    IF n = 0 THEN {<<>>}
    ELSE { <<c>> \o t : c \in cs, t \in TextsOver(cs, n - 1) }

\* the transcripts: empty, whitespace only, and with text
Contents == UNION { TextsOver({" ", Newline, "a"}, n) : n \in 0..MaxContent }

\* the pieces of an answer
Chunks == { <<"a">>, <<Newline>> }

\* the answers of a request that is not streamed
Answers == UNION { TextsOver({"a", Newline}, n) : n \in 0..MaxChunks }

\* not transcript_text or not transcript_text.strip()
IsEmptyText(t) == t = <<>> \/ StripAll(t) = <<>>

\* if progress_callback: progress_callback(msg); only the CLI gives one
Notify(msg) == IF front = "cli" THEN Append(callbacks, msg) ELSE callbacks

\* cli.py format, lines 35-45: the file is read and format_with_claude is
\* called with a progress callback
CliFormat ==
    /\ pc = "idle"
    /\ \E raw_text \in Contents : content' = raw_text
    /\ front' = "cli"
    /\ pc' = "format"
    /\ UNCHANGED <<callbacks, api_calls, formatted, exc, rendered, response>>
    /\ UNCHANGED <<splitVars, doc, lines, i>>
    /\ UNCHANGED moreVars
    /\ UNCHANGED uploadVars

\* fast_web_app.py format_transcript, lines 163-173: the file is read, is not
\* empty, and format_with_claude is called without a callback
FastFormat ==
    /\ pc = "idle"
    /\ \E c \in Contents : StripAll(c) /= <<>> /\ content' = c
    /\ front' = "fast"
    /\ pc' = "format"
    /\ UNCHANGED <<callbacks, api_calls, formatted, exc, rendered, response>>
    /\ UNCHANGED <<splitVars, doc, lines, i>>
    /\ UNCHANGED moreVars
    /\ UNCHANGED uploadVars

\* fast_web_app.py format_transcript, lines 168-170: 'File is empty'
FastEmpty ==
    /\ pc = "idle"
    /\ \E c \in Contents : StripAll(c) = <<>> /\ content' = c
    /\ front' = "fast"
    /\ response' = "error"
    /\ pc' = "done"
    /\ UNCHANGED <<callbacks, api_calls, formatted, exc, rendered>>
    /\ UNCHANGED <<splitVars, doc, lines, i>>
    /\ UNCHANGED moreVars
    /\ UNCHANGED uploadVars

\* web_app.py upload_file, lines 556-619: the upload is saved and read, and
\* format_with_claude_inline is called with its content, whatever it is
WebUpload ==
    /\ pc = "idle"
    /\ \E c \in Contents : content' = c
    /\ front' = "web"
    /\ pc' = "inline"
    /\ UNCHANGED <<callbacks, api_calls, formatted, exc, rendered, response>>
    /\ UNCHANGED <<splitVars, doc, lines, i>>
    /\ UNCHANGED moreVars
    /\ UNCHANGED uploadVars

\* ClaudeFormatter.__init__ lines 42-46 and format_with_claude_inline lines
\* 94-95: no API key is set
NoApiKey ==
    /\ pc \in {"format", "inline"}
    /\ exc' = "ValueError"
    /\ pc' = "raised"
    /\ UNCHANGED <<front, content, callbacks, api_calls, formatted, rendered, response>>
    /\ UNCHANGED <<splitVars, doc, lines, i>>
    /\ UNCHANGED moreVars
    /\ UNCHANGED uploadVars

\* format_transcript lines 67-68
FormatEmpty ==
    /\ pc = "format"
    /\ IsEmptyText(content)
    /\ exc' = "ValueError"
    /\ pc' = "raised"
    /\ UNCHANGED <<front, content, callbacks, api_calls, formatted, rendered, response>>
    /\ UNCHANGED <<splitVars, doc, lines, i>>
    /\ UNCHANGED moreVars
    /\ UNCHANGED uploadVars

\* format_transcript lines 70-74
FormatPrepare ==
    /\ pc = "format"
    /\ ~IsEmptyText(content)
    /\ callbacks' = Notify("Preparing")
    /\ pc' = "prepared"
    /\ UNCHANGED <<front, content, api_calls, formatted, exc, rendered, response>>
    /\ UNCHANGED <<splitVars, doc, lines, i>>
    /\ UNCHANGED moreVars
    /\ UNCHANGED uploadVars

\* format_transcript lines 77-92: the request is sent
FormatSend ==
    /\ pc = "prepared"
    /\ callbacks' = Notify("Sending")
    /\ api_calls' = api_calls + 1
    /\ pc' = "sent"
    /\ UNCHANGED <<front, content, formatted, exc, rendered, response>>
    /\ UNCHANGED <<splitVars, doc, lines, i>>
    /\ UNCHANGED moreVars
    /\ UNCHANGED uploadVars

\* format_transcript lines 93-97: the stream is open
FormatProcess ==
    /\ pc = "sent"
    /\ callbacks' = Notify("Processing")
    /\ formatted' = <<>>
    /\ pc' = "stream"
    /\ UNCHANGED <<front, content, api_calls, exc, rendered, response>>
    /\ UNCHANGED <<splitVars, doc, lines, i>>
    /\ UNCHANGED moreVars
    /\ UNCHANGED uploadVars

\* format_transcript lines 98-99: one more piece of the answer
FormatChunk ==
    /\ pc = "stream"
    /\ Len(formatted) < MaxChunks
    /\ \E chunk \in Chunks : formatted' = formatted \o chunk
    /\ UNCHANGED <<front, content, callbacks, api_calls, exc, rendered, response, pc>>
    /\ UNCHANGED <<splitVars, doc, lines, i>>
    /\ UNCHANGED moreVars
    /\ UNCHANGED uploadVars

\* format_transcript lines 101-104: the stream is over
FormatComplete ==
    /\ pc = "stream"
    /\ callbacks' = Notify("completed")
    /\ pc' = "formatted"
    /\ UNCHANGED <<front, content, api_calls, formatted, exc, rendered, response>>
    /\ UNCHANGED <<splitVars, doc, lines, i>>
    /\ UNCHANGED moreVars
    /\ UNCHANGED uploadVars

\* a variant that returns the text collected so far when the stream raises
FormatFailPartial ==
    /\ pc \in {"sent", "stream"}
    /\ callbacks' = Notify("Error")
    /\ exc' = "RuntimeError"
    /\ pc' = "formatted"
    /\ UNCHANGED <<front, content, api_calls, formatted, rendered, response>>
    /\ UNCHANGED <<splitVars, doc, lines, i>>
    /\ UNCHANGED moreVars
    /\ UNCHANGED uploadVars

\* a variant that raises without a message to the callback
FormatFailSilent ==
    /\ pc \in {"sent", "stream"}
    /\ exc' = "RuntimeError"
    /\ pc' = "raised"
    /\ UNCHANGED <<front, content, callbacks, api_calls, formatted, rendered, response>>
    /\ UNCHANGED <<splitVars, doc, lines, i>>
    /\ UNCHANGED moreVars
    /\ UNCHANGED uploadVars

\* format_transcript lines 106-113: the request or the stream raises
FormatFail ==
    /\ pc \in {"sent", "stream"}
    /\ callbacks' = Notify("Error")
    /\ exc' = "RuntimeError"
    /\ pc' = "raised"
    /\ UNCHANGED <<front, content, api_calls, formatted, rendered, response>>
    /\ UNCHANGED <<splitVars, doc, lines, i>>
    /\ UNCHANGED moreVars
    /\ UNCHANGED uploadVars

\* format_with_claude_inline lines 97-371: the request is made and answered
InlineAnswer ==
    /\ pc = "inline"
    /\ api_calls' = api_calls + 1
    /\ \E a \in Answers : formatted' = a
    /\ pc' = "formatted"
    /\ UNCHANGED <<front, content, callbacks, exc, rendered, response>>
    /\ UNCHANGED <<splitVars, doc, lines, i>>
    /\ UNCHANGED moreVars
    /\ UNCHANGED uploadVars

\* format_with_claude_inline lines 354, 373-378: the request raises
InlineFail ==
    /\ pc = "inline"
    /\ api_calls' = api_calls + 1
    /\ exc' = "RuntimeError"
    /\ pc' = "raised"
    /\ UNCHANGED <<front, content, callbacks, formatted, rendered, response>>
    /\ UNCHANGED <<splitVars, doc, lines, i>>
    /\ UNCHANGED moreVars
    /\ UNCHANGED uploadVars

\* cli.py format, lines 52-58: the formatting call returned, the
\* document is rendered from its text (the renderer itself is Spec,
\* SpecWeb) and the front end answers with it
CliExport ==
    /\ pc = "formatted"
    /\ front = "cli"
    /\ rendered' = Append(rendered, formatted)
    /\ response' = "document"
    /\ pc' = "done"
    /\ UNCHANGED <<front, content, callbacks, api_calls, formatted, exc>>
    /\ UNCHANGED <<splitVars, doc, lines, i>>
    /\ UNCHANGED moreVars
    /\ UNCHANGED uploadVars

\* cli.py format, lines 47-50: the formatting call raised, the
\* front end answers with the error
CliFail ==
    /\ pc = "raised"
    /\ front = "cli"
    /\ response' = "error"
    /\ pc' = "done"
    /\ UNCHANGED <<front, content, callbacks, api_calls, formatted, exc, rendered>>
    /\ UNCHANGED <<splitVars, doc, lines, i>>
    /\ UNCHANGED moreVars
    /\ UNCHANGED uploadVars

\* web_app.py upload_file, lines 632-654: the formatting call returned, the
\* document is rendered from its text (the renderer itself is Spec,
\* SpecWeb) and the front end answers with it
WebCreate ==
    /\ pc = "formatted"
    /\ front = "web"
    /\ rendered' = Append(rendered, formatted)
    /\ response' = "document"
    /\ pc' = "done"
    /\ UNCHANGED <<front, content, callbacks, api_calls, formatted, exc>>
    /\ UNCHANGED <<splitVars, doc, lines, i>>
    /\ UNCHANGED moreVars
    /\ UNCHANGED uploadVars

\* web_app.py upload_file, lines 622-630: the formatting call raised, the
\* front end answers with the error
WebFail ==
    /\ pc = "raised"
    /\ front = "web"
    /\ response' = "error"
    /\ pc' = "done"
    /\ UNCHANGED <<front, content, callbacks, api_calls, formatted, exc, rendered>>
    /\ UNCHANGED <<splitVars, doc, lines, i>>
    /\ UNCHANGED moreVars
    /\ UNCHANGED uploadVars

\* fast_web_app.py format_transcript, lines 175-224: the formatting call returned, the
\* document is rendered from its text (the renderer itself is Spec,
\* SpecWeb) and the front end answers with it
FastRender ==
    /\ pc = "formatted"
    /\ front = "fast"
    /\ rendered' = Append(rendered, formatted)
    /\ response' = "document"
    /\ pc' = "done"
    /\ UNCHANGED <<front, content, callbacks, api_calls, formatted, exc>>
    /\ UNCHANGED <<splitVars, doc, lines, i>>
    /\ UNCHANGED moreVars
    /\ UNCHANGED uploadVars

\* fast_web_app.py format_transcript, lines 226-227: the formatting call raised, the
\* front end answers with the error
FastFail ==
    /\ pc = "raised"
    /\ front = "fast"
    /\ response' = "error"
    /\ pc' = "done"
    /\ UNCHANGED <<front, content, callbacks, api_calls, formatted, exc, rendered>>
    /\ UNCHANGED <<splitVars, doc, lines, i>>
    /\ UNCHANGED moreVars
    /\ UNCHANGED uploadVars

NextFront ==
    \/ CliFormat
    \/ FastFormat
    \/ FastEmpty
    \/ WebUpload
    \/ NoApiKey
    \/ FormatEmpty
    \/ FormatPrepare
    \/ FormatSend
    \/ FormatProcess
    \/ FormatChunk
    \/ FormatComplete
    \/ FormatFail
    \/ InlineAnswer
    \/ InlineFail
    \/ CliExport
    \/ CliFail
    \/ WebCreate
    \/ WebFail
    \/ FastRender
    \/ FastFail

SpecFront == Init /\ [][NextFront]_vars

-----------------------------------------------------------------------------
(* web_app_safe.py, format_with_claude_inline: the cleanup of the answer *)

\* lines 189-194
lines_to_skip ==
    << <<"H","e","r","e","'","s"," ","t","h","e"," ","f","o","r","m","a","t","t","e","d"," ","t","r","a","n","s","c","r","i","p","t",":">>,
       <<"H","e","r","e"," ","i","s"," ","t","h","e"," ","f","o","r","m","a","t","t","e","d"," ","t","r","a","n","s","c","r","i","p","t",":">>,
       <<"-","-","-">>,
       <<"_","_","_">> >>

\* any(skip in line for skip in lines_to_skip)
HasSkip(line) == \E k \in 1..Len(lines_to_skip) : Contains(line, lines_to_skip[k])

RECURSIVE PopSkipped(_)
\* lines 197-198: while lines and any(...): lines.pop(0)
PopSkipped(ls) ==
    IF ls /= <<>> /\ HasSkip(Head(ls)) THEN PopSkipped(Tail(ls)) ELSE ls

\* lines 196-200: the cleaned text of an answer
CleanUp(formatted_text) == StripAll(JoinAll(PopSkipped(SplitNL(formatted_text))))

\* the most lines of an answer
MaxCleanLines == 3

\* the most times the cleanup is applied
MaxCleans == 2

\* the lines of an answer: blank, spaces, text, the markers alone and inside
\* a line, a shorter dash line, the wrapper sentences
CleanLines ==
    { <<>>, <<" ">>, <<"a">>, <<"-","-","-">>, <<"_","_","_">>, <<"-","-">>,
      <<"a","-","-","-","-">>, lines_to_skip[1], lines_to_skip[2] }

\* the answers given to the cleanup
CleanTexts ==
    { JoinNL(ls) : ls \in UNION { [1..n -> CleanLines] : n \in 1..MaxCleanLines } }

\* line 186: the answer of the model has arrived
InitClean ==
    /\ pc = "answer"
    /\ formatted \in CleanTexts
    /\ doc = <<>>
    /\ lines = <<>>
    /\ i = 0
    /\ text = <<>>
    /\ regions = <<>>
    /\ ridx = 0
    /\ last_pos = 0
    /\ runs = <<>>
    /\ spc = "idle"
    /\ front = "none"
    /\ content = <<>>
    /\ callbacks = <<>>
    /\ api_calls = 0
    /\ exc = "none"
    /\ rendered = <<>>
    /\ response = "none"
    /\ calls = 0
    /\ title = <<>>
    /\ cleaned = <<>>
    /\ tried = <<>>
    /\ last_error = "none"
    /\ exc_msg = "none"
    /\ formatter_used = "none"
    /\ uploads = NoFiles
    /\ outputs = NoFiles
    /\ reqs = NoRequests

\* lines 196-200: the cleanup is applied to the answer, then to its own result
CleanStep ==
    /\ pc = "answer"
    /\ Len(cleaned) < MaxCleans
    /\ cleaned' = Append(cleaned,
                         CleanUp(IF cleaned = <<>> THEN formatted
                                 ELSE cleaned[Len(cleaned)]))
    /\ UNCHANGED <<calls, title, tried, last_error, exc_msg, formatter_used>>
    /\ UNCHANGED uploadVars
    /\ UNCHANGED splitVars
    /\ UNCHANGED exportVars
    /\ UNCHANGED frontVars

NextClean == CleanStep

SpecClean == InitClean /\ [][NextClean]_vars

-----------------------------------------------------------------------------
(* web_app_fallback.py, format_with_claude_fallback *)

\* lines 100-104: the names of the models, in the order of the list
models_to_try == <<"Claude Sonnet 4.5", "Claude 3.5 Sonnet", "Claude 3.5 Sonnet Latest">>

\* the exceptions a request to a model raises
ModelErrors == {"NotFoundError", "RateLimitError", "APIConnectionError"}

\* lines 80-86: the function is called and the API key is set
FallbackCall ==
    /\ pc = "idle"
    /\ \E transcript_text \in Contents : content' = transcript_text
    /\ front' = "fallback"
    /\ pc' = "models"
    /\ UNCHANGED <<callbacks, api_calls, formatted, exc, rendered, response>>
    /\ UNCHANGED <<splitVars, doc, lines, i>>
    /\ UNCHANGED moreVars
    /\ UNCHANGED uploadVars

\* lines 82-85: the function is called and no API key is set
FallbackNoKey ==
    /\ pc = "idle"
    /\ \E transcript_text \in Contents : content' = transcript_text
    /\ front' = "fallback"
    /\ exc' = "ValueError"
    /\ pc' = "raised"
    /\ UNCHANGED <<callbacks, api_calls, formatted, rendered, response>>
    /\ UNCHANGED <<splitVars, doc, lines, i>>
    /\ UNCHANGED moreVars
    /\ UNCHANGED uploadVars

\* the models are taken in the order of the list: the next one
NextModel == models_to_try[Len(tried) + 1]

\* a variant that reports the first model of the list whichever answered
ModelAnswersFirstName ==
    /\ pc = "models"
    /\ Len(tried) < Len(models_to_try)
    /\ tried' = Append(tried, [model |-> NextModel, outcome |-> "ok"])
    /\ api_calls' = api_calls + 1
    /\ \E a \in Answers : formatted' = a
    /\ formatter_used' = models_to_try[1]
    /\ pc' = "returned"
    /\ UNCHANGED <<front, content, callbacks, exc, rendered, response>>
    /\ UNCHANGED <<splitVars, doc, lines, i>>
    /\ UNCHANGED <<calls, title, cleaned, last_error, exc_msg>>
    /\ UNCHANGED uploadVars

\* lines 107-124: the request to the next model is answered; the text and
\* the name of the model are returned
ModelAnswers ==
    /\ pc = "models"
    /\ Len(tried) < Len(models_to_try)
    /\ tried' = Append(tried, [model |-> NextModel, outcome |-> "ok"])
    /\ api_calls' = api_calls + 1
    /\ \E a \in Answers : formatted' = a
    /\ formatter_used' = NextModel
    /\ pc' = "returned"
    /\ UNCHANGED <<front, content, callbacks, exc, rendered, response>>
    /\ UNCHANGED <<splitVars, doc, lines, i>>
    /\ UNCHANGED <<calls, title, cleaned, last_error, exc_msg>>
    /\ UNCHANGED uploadVars

\* lines 107-120, 126-129: the request to the next model raises; the error
\* is kept and the loop goes on
ModelFails ==
    /\ pc = "models"
    /\ Len(tried) < Len(models_to_try)
    /\ \E e \in ModelErrors :
          /\ tried' = Append(tried, [model |-> NextModel, outcome |-> e])
          /\ last_error' = e
    /\ api_calls' = api_calls + 1
    /\ UNCHANGED <<front, content, callbacks, formatted, exc, rendered, response, pc>>
    /\ UNCHANGED <<splitVars, doc, lines, i>>
    /\ UNCHANGED <<calls, title, cleaned, exc_msg, formatter_used>>
    /\ UNCHANGED uploadVars

\* lines 131-132: the list is used up
AllModelsFailed ==
    /\ pc = "models"
    /\ Len(tried) >= Len(models_to_try)
    /\ exc' = "RuntimeError"
    /\ exc_msg' = last_error
    /\ pc' = "raised"
    /\ UNCHANGED <<front, content, callbacks, api_calls, formatted, rendered, response>>
    /\ UNCHANGED <<splitVars, doc, lines, i>>
    /\ UNCHANGED <<calls, title, cleaned, tried, last_error, formatter_used>>
    /\ UNCHANGED uploadVars

NextFallback ==
    \/ FallbackCall
    \/ FallbackNoKey
    \/ ModelAnswers
    \/ ModelFails
    \/ AllModelsFailed

SpecFallback == Init /\ [][NextFallback]_vars

-----------------------------------------------------------------------------
(* web_app.py and web_app_safe.py, upload_file: requests handled at a time *)

\* if upload_path and os.path.exists(upload_path): os.remove(upload_path)
Removed(filename) == [uploads EXCEPT ![filename] = Absent]

\* the text the formatter returns for a transcript
Formatted(transcript) == <<"formatted", transcript>>

\* web_app.py lines 582-587: the upload is saved under its own name
UploadSave(r) ==
    /\ reqs[r].pc = "idle"
    /\ \E filename \in Names, d \in Datas :
          /\ uploads' = [uploads EXCEPT ![filename] = File(r, d)]
          /\ reqs' = [reqs EXCEPT ![r] =
                        [NoRequest EXCEPT !.app = "web", !.pc = "saved",
                                          !.filename = filename, !.data = d,
                                          !.saved = TRUE]]
    /\ UNCHANGED outputs
    /\ UNCHANGED <<splitVars, exportVars, frontVars, moreVars>>

\* web_app.py lines 589-593: saving the upload raises
UploadSaveFail(r) ==
    /\ reqs[r].pc = "idle"
    /\ \E filename \in Names :
          reqs' = [reqs EXCEPT ![r] =
                     [NoRequest EXCEPT !.app = "web", !.pc = "done",
                                       !.filename = filename, !.response = "error"]]
    /\ UNCHANGED <<uploads, outputs>>
    /\ UNCHANGED <<splitVars, exportVars, frontVars, moreVars>>

\* web_app.py lines 596-606: the file of that name is read
UploadRead(r) ==
    /\ reqs[r].pc = "saved"
    /\ reqs[r].app = "web"
    /\ uploads[reqs[r].filename] /= Absent
    /\ reqs' = [reqs EXCEPT ![r].pc = "read",
                            ![r].content = uploads[reqs[r].filename].data]
    /\ UNCHANGED <<uploads, outputs>>
    /\ UNCHANGED <<splitVars, exportVars, frontVars, moreVars>>

\* web_app.py lines 608-614: the file cannot be read with either encoding
UploadReadFail(r) ==
    /\ reqs[r].pc = "saved"
    /\ reqs[r].app = "web"
    /\ uploads' = Removed(reqs[r].filename)
    /\ reqs' = [reqs EXCEPT ![r].pc = "done", ![r].response = "error"]
    /\ UNCHANGED outputs
    /\ UNCHANGED <<splitVars, exportVars, frontVars, moreVars>>

\* web_app.py lines 618-620: the content is formatted
UploadFormat(r) ==
    /\ reqs[r].pc = "read"
    /\ reqs[r].app = "web"
    /\ reqs' = [reqs EXCEPT ![r].pc = "formatted",
                            ![r].formatted = Formatted(reqs[r].content)]
    /\ UNCHANGED <<uploads, outputs>>
    /\ UNCHANGED <<splitVars, exportVars, frontVars, moreVars>>

\* web_app.py lines 622-630: formatting raises
UploadFormatFail(r) ==
    /\ reqs[r].pc = "read"
    /\ reqs[r].app = "web"
    /\ uploads' = Removed(reqs[r].filename)
    /\ reqs' = [reqs EXCEPT ![r].pc = "done", ![r].response = "error"]
    /\ UNCHANGED outputs
    /\ UNCHANGED <<splitVars, exportVars, frontVars, moreVars>>

\* web_app.py lines 633-640: the document is written to the output folder
UploadCreate(r) ==
    /\ reqs[r].pc = "formatted"
    /\ reqs[r].app = "web"
    /\ outputs' = [outputs EXCEPT ![OutputName(reqs[r].filename)] =
                                     File(r, reqs[r].formatted)]
    /\ reqs' = [reqs EXCEPT ![r].pc = "created"]
    /\ UNCHANGED uploads
    /\ UNCHANGED <<splitVars, exportVars, frontVars, moreVars>>

\* web_app.py lines 640, 656-662: creating the document raises
UploadCreateFail(r) ==
    /\ reqs[r].pc = "formatted"
    /\ reqs[r].app = "web"
    /\ uploads' = Removed(reqs[r].filename)
    /\ reqs' = [reqs EXCEPT ![r].pc = "done", ![r].response = "error"]
    /\ UNCHANGED outputs
    /\ UNCHANGED <<splitVars, exportVars, frontVars, moreVars>>

\* web_app.py lines 643-654: the upload is removed and the answer names the document
UploadRemove(r) ==
    /\ reqs[r].pc = "created"
    /\ reqs[r].app = "web"
    /\ uploads' = Removed(reqs[r].filename)
    /\ reqs' = [reqs EXCEPT ![r].pc = "done", ![r].response = "success"]
    /\ UNCHANGED outputs
    /\ UNCHANGED <<splitVars, exportVars, frontVars, moreVars>>

\* web_app_safe.py lines 293-295: the upload is saved under its own name
SafeSave(r) ==
    /\ reqs[r].pc = "idle"
    /\ \E filename \in Names, d \in Datas :
          /\ uploads' = [uploads EXCEPT ![filename] = File(r, d)]
          /\ reqs' = [reqs EXCEPT ![r] =
                        [NoRequest EXCEPT !.app = "safe", !.pc = "saved",
                                          !.filename = filename, !.data = d,
                                          !.saved = TRUE]]
    /\ UNCHANGED outputs
    /\ UNCHANGED <<splitVars, exportVars, frontVars, moreVars>>

\* web_app_safe.py lines 294-295, 330-334: saving the upload raises, after
\* upload_path was set
SafeSaveFail(r) ==
    /\ reqs[r].pc = "idle"
    /\ \E filename \in Names :
          /\ uploads' = Removed(filename)
          /\ reqs' = [reqs EXCEPT ![r] =
                        [NoRequest EXCEPT !.app = "safe", !.pc = "done",
                                          !.filename = filename, !.response = "error"]]
    /\ UNCHANGED outputs
    /\ UNCHANGED <<splitVars, exportVars, frontVars, moreVars>>

\* web_app_safe.py lines 298-305: the text of the file of that name is read
SafeRead(r) ==
    /\ reqs[r].pc = "saved"
    /\ reqs[r].app = "safe"
    /\ uploads[reqs[r].filename] /= Absent
    /\ reqs' = [reqs EXCEPT ![r].pc = "read",
                            ![r].content = uploads[reqs[r].filename].data]
    /\ UNCHANGED <<uploads, outputs>>
    /\ UNCHANGED <<splitVars, exportVars, frontVars, moreVars>>

\* web_app_safe.py lines 301-307: the upload is a .docx file and the docx package
\* cannot be imported
SafeNoDocx(r) ==
    /\ reqs[r].pc = "saved"
    /\ reqs[r].app = "safe"
    /\ reqs[r].filename[2] = "docx"
    /\ UNCHANGED uploads
    /\ reqs' = [reqs EXCEPT ![r].pc = "done", ![r].response = "error"]
    /\ UNCHANGED outputs
    /\ UNCHANGED <<splitVars, exportVars, frontVars, moreVars>>

\* web_app_safe.py lines 330-334: reading, formatting or exporting raises
SafeFail(r) ==
    /\ reqs[r].pc \in {"saved", "read", "formatted"}
    /\ reqs[r].app = "safe"
    /\ uploads' = Removed(reqs[r].filename)
    /\ reqs' = [reqs EXCEPT ![r].pc = "done", ![r].response = "error"]
    /\ UNCHANGED outputs
    /\ UNCHANGED <<splitVars, exportVars, frontVars, moreVars>>

\* web_app_safe.py line 310: the text is formatted
SafeFormat(r) ==
    /\ reqs[r].pc = "read"
    /\ reqs[r].app = "safe"
    /\ reqs' = [reqs EXCEPT ![r].pc = "formatted",
                            ![r].formatted = Formatted(reqs[r].content)]
    /\ UNCHANGED <<uploads, outputs>>
    /\ UNCHANGED <<splitVars, exportVars, frontVars, moreVars>>

\* web_app_safe.py lines 313-318: the document is written to the output folder
SafeExport(r) ==
    /\ reqs[r].pc = "formatted"
    /\ reqs[r].app = "safe"
    /\ outputs' = [outputs EXCEPT ![OutputName(reqs[r].filename)] =
                                     File(r, reqs[r].formatted)]
    /\ reqs' = [reqs EXCEPT ![r].pc = "created"]
    /\ UNCHANGED uploads
    /\ UNCHANGED <<splitVars, exportVars, frontVars, moreVars>>

\* web_app_safe.py lines 321-328: the upload is removed and the answer names the document
SafeRemove(r) ==
    /\ reqs[r].pc = "created"
    /\ reqs[r].app = "safe"
    /\ uploads' = Removed(reqs[r].filename)
    /\ reqs' = [reqs EXCEPT ![r].pc = "done", ![r].response = "success"]
    /\ UNCHANGED outputs
    /\ UNCHANGED <<splitVars, exportVars, frontVars, moreVars>>

NextUpload ==
    \/ \E r \in Reqs : UploadSave(r)
    \/ \E r \in Reqs : UploadSaveFail(r)
    \/ \E r \in Reqs : UploadRead(r)
    \/ \E r \in Reqs : UploadReadFail(r)
    \/ \E r \in Reqs : UploadFormat(r)
    \/ \E r \in Reqs : UploadFormatFail(r)
    \/ \E r \in Reqs : UploadCreate(r)
    \/ \E r \in Reqs : UploadCreateFail(r)
    \/ \E r \in Reqs : UploadRemove(r)
    \/ \E r \in Reqs : SafeSave(r)
    \/ \E r \in Reqs : SafeSaveFail(r)
    \/ \E r \in Reqs : SafeRead(r)
    \/ \E r \in Reqs : SafeNoDocx(r)
    \/ \E r \in Reqs : SafeFail(r)
    \/ \E r \in Reqs : SafeFormat(r)
    \/ \E r \in Reqs : SafeExport(r)
    \/ \E r \in Reqs : SafeRemove(r)

SpecUpload == Init /\ [][NextUpload]_vars

-----------------------------------------------------------------------------
(* Properties of the span splitter, checked under SpecSplit *)

RECURSIVE RunTexts(_)
\* the texts of the runs rs, concatenated in order
RunTexts(rs) == IF rs = <<>> THEN <<>> ELSE Head(rs).text \o RunTexts(Tail(rs))

\* C1 (span coverage): when the splitter is done, the texts of the runs,
\* concatenated, are the line without its delimiters, each character of the
\* line once.  Stated on the characters that are not '*', which every reading
\* of "delimiter markup" keeps: asterisks aside, the concatenation is the
\* line, asterisks aside.
SpanCoverage ==
    spc = "done" => Remove(RunTexts(runs), Star) = Remove(text, Star)

\* C2 (no overlap): the regions the splitter walks are pairwise disjoint and
\* in order, so that the walk position never moves backwards: a region
\* starts at or after the end of every region before it.
NoOverlap ==
    \A a, b \in 1..Len(regions) :
        a < b => regions[a].end <= regions[b].start

\* the elements of a sequence
Range(t) == {t[k] : k \in 1..Len(t)}

\* the italic matches of the line, and its bold matches
ItalicCands == Range(ItalicMatches(text, 0))

BoldCands == Range(BoldMatches(text, 0))

Survives(m) == \E k \in 1..Len(regions) : regions[k] = m

EmittedItalic(m) ==
    \E k \in 1..Len(runs) :
        runs[k].text = m.content /\ runs[k].italic /\ ~runs[k].bold

NoRunBoldAndItalic == \A k \in 1..Len(runs) : ~(runs[k].bold /\ runs[k].italic)

\* C5 as claimed (bold precedence): an italic candidate is discarded exactly
\* when both its offsets lie strictly inside a bold region; every other one
\* survives and is emitted as an italic run; no run is bold and italic.
ItalicDroppedIffWithinBold ==
    /\ spc \in {"walk", "done"} =>
         \A m \in ItalicCands :
            ~Survives(m) <=>
                \E b \in BoldCands : b.start < m.start /\ m.end < b.end
    /\ spc = "done" => \A m \in ItalicCands : Survives(m) => EmittedItalic(m)
    /\ NoRunBoldAndItalic

\* C5 as amended: an italic candidate is discarded exactly when its start
\* offset lies strictly inside a bold region, wherever it ends; every other
\* one survives and is emitted as an italic run; no run is bold and italic.
ItalicDroppedIffStartsInBold ==
    /\ spc \in {"walk", "done"} =>
         \A m \in ItalicCands :
            ~Survives(m) <=>
                \E b \in BoldCands : b.start < m.start /\ m.start < b.end
    /\ spc = "done" => \A m \in ItalicCands : Survives(m) => EmittedItalic(m)
    /\ NoRunBoldAndItalic

\* C5 witness: the splitter is done with a line in which an italic candidate
\* that starts inside a bold region and ends after it was discarded, and no
\* run is italic.
ItalicDroppedAcrossBoldEnd ==
    /\ spc = "done"
    /\ \E m \in ItalicCands : \E b \in BoldCands :
          b.start < m.start /\ m.start < b.end /\ b.end < m.end /\ ~Survives(m)
    /\ \A k \in 1..Len(runs) : ~runs[k].italic

\* digits ':' digits, or digits '--' digits, somewhere in t
VersePattern(t) ==
    \/ \E k \in 1..(Len(t) - 2) :
          t[k] \in Digits /\ t[k + 1] = ":" /\ t[k + 2] \in Digits
    \/ \E k \in 1..(Len(t) - 3) :
          t[k] \in Digits /\ t[k + 1] = "-" /\ t[k + 2] = "-" /\ t[k + 3] \in Digits

\* a book name of the list occurs in t
NamesBook(t) == \E b \in 1..Len(books) : Contains(t, books[b])

Plain(t) == Run(t, FALSE, FALSE, "none")

OccursAt(t, p, k) == k >= 0 /\ k + Len(p) <= Len(t) /\ Slice(t, k, k + Len(p)) = p

\* the occurrence of p at offset k is part of a longer word
InsideWord(t, p, k) ==
    \/ (k > 0 /\ Ch(t, k - 1) \in Letters)
    \/ (k + Len(p) < Len(t) /\ Ch(t, k + Len(p)) \in Letters)

\* a book name occurs in t, and every occurrence of one is part of a longer word
BookOnlyInsideWords(t) ==
    /\ NamesBook(t)
    /\ \A b \in 1..Len(books) : \A k \in 0..Len(t) :
          OccursAt(t, books[b], k) => InsideWord(t, books[b], k)

\* C7 (exact book names): when the splitter is done, a bold run without a
\* verse-number pattern in which book names occur only as parts of longer
\* words (Marketing, Johnson) is not blue.
ExactBookName ==
    spc = "done" =>
        \A k \in 1..Len(runs) :
            (runs[k].bold /\ ~VersePattern(runs[k].text)
                /\ BookOnlyInsideWords(runs[k].text))
            => runs[k].color /= "blue"

-----------------------------------------------------------------------------
(* Properties of export, checked under Spec.  The exporter is new and export *)
(* is called once, so paragraph k of the document was added for line k.      *)

\* line k of the text, stripped as the loop strips it
LineOf(k) == Strip(lines[k], Whitespace)

Unstyled(r) == ~r.bold /\ ~r.italic

\* the number of '*' in t
StarCount(t) == Len(t) - Len(Remove(t, Star))

\* the only markup of t is one '*' or one '**'
SingleMarker(t) ==
    \/ StarCount(t) = 1
    \/ (StarCount(t) = 2 /\ Contains(t, <<Star, Star>>))

\* C3 as claimed (unbalanced delimiters are literal): a line rendered as a
\* plain paragraph whose only markup is one '*' or one '**' becomes a single
\* unstyled run holding the line unchanged, and a line of exactly '**' is
\* rendered as a plain paragraph with the single unstyled run '**'.
MarkerKeptLiteral ==
    \A k \in 1..Len(doc) :
        /\ (doc[k].kind = "plain" /\ SingleMarker(LineOf(k)))
              => doc[k].runs = <<Plain(LineOf(k))>>
        /\ LineOf(k) = <<Star, Star>>
              => (doc[k].kind = "plain" /\ doc[k].runs = <<Plain(<<Star, Star>>)>>)

\* C3 as amended (unbalanced delimiters are dropped): no unstyled run of a
\* plain paragraph holds a '*'; a line rendered as a plain paragraph whose
\* only markup is one '*' or one '**' becomes a single unstyled run holding
\* the line without it, or no run when nothing else is left; a line of
\* exactly '**' is rendered as a title with empty text while the document has
\* fewer than 5 paragraphs, and as a plain paragraph without runs after that.
MarkerDropped ==
    \A k \in 1..Len(doc) :
        /\ doc[k].kind = "plain" =>
              \A n \in 1..Len(doc[k].runs) :
                  Unstyled(doc[k].runs[n]) => Star \notin Range(doc[k].runs[n].text)
        /\ (doc[k].kind = "plain" /\ SingleMarker(LineOf(k))) =>
              doc[k].runs = IF Remove(LineOf(k), Star) = <<>> THEN <<>>
                            ELSE <<Plain(Remove(LineOf(k), Star))>>
        /\ LineOf(k) = <<Star, Star>> =>
              IF k - 1 < 5
              THEN /\ doc[k].kind = "title"
                   /\ doc[k].runs = <<Run(<<>>, TRUE, FALSE, "none")>>
              ELSE /\ doc[k].kind = "plain"
                   /\ doc[k].runs = <<>>

\* C3 witness: the document is saved, and its sixth line or a later one is
\* exactly '**' and was rendered as a plain paragraph without runs.
MarkerDroppedSeen ==
    /\ pc = "saved"
    /\ \E k \in 6..Len(doc) :
          LineOf(k) = <<Star, Star>> /\ doc[k].kind = "plain" /\ doc[k].runs = <<>>

\* C4 (no asterisks in output): no run of any paragraph of the document
\* holds the character '*'.
NoAsterisks ==
    \A k \in 1..Len(doc) : \A n \in 1..Len(doc[k].runs) :
        Star \notin Range(doc[k].runs[n].text)

\* C8 (no empty runs): every run added for a line that is not blank has a
\* text that is not empty.
NoEmptyRuns ==
    \A k \in 1..Len(doc) :
        LineOf(k) /= <<>> =>
            \A n \in 1..Len(doc[k].runs) : doc[k].runs[n].text /= <<>>

DashLike == {"-", "_", BoxDash}

\* a run of at least 10 dash-like characters and nothing else
DashRun(t) == Len(t) >= 10 /\ \A k \in 1..Len(t) : t[k] \in DashLike

\* C9 (divider classification): a line that is not blank is rendered as a
\* rule paragraph exactly when, stripped, it is a run of at least 10
\* dash-like characters ('-', '_' or the box-drawing dash) and nothing else.
DividerIffDashRun ==
    \A k \in 1..Len(doc) :
        LineOf(k) /= <<>> => (doc[k].kind = "rule" <=> DashRun(LineOf(k)))

\* t starts with '**' and ends with '**'
Wrapped(t) == StartsWith(t, <<Star, Star>>) /\ EndsWith(t, <<Star, Star>>)

\* C10 (titles only near the top): a paragraph is a title only if its line
\* is wrapped in '**' and fewer than 5 paragraphs precede it; the paragraph
\* of a line at 0-based index 5 or later is never a title.
TitleOnlyNearTop ==
    \A k \in 1..Len(doc) :
        doc[k].kind = "title" => (Wrapped(LineOf(k)) /\ k - 1 < 5)

\* C10 witness: the document is saved, and a line wrapped in '**' around a
\* text, at 0-based index 5 or later, was rendered as a plain paragraph, not
\* as a title.
WrappedLineBelowTop ==
    /\ pc = "saved"
    /\ \E k \in 6..Len(doc) :
          Wrapped(LineOf(k)) /\ Len(LineOf(k)) > 4 /\ doc[k].kind = "plain"

\* the paragraphs of the document that are titles
Titles == {k \in 1..Len(doc) : doc[k].kind = "title"}

\* C11 (at most one title): at most one line of the text is rendered as the
\* title; a later line wrapped in double asterisks, also one among the first
\* five lines, is not rendered as a second title.
AtMostOneTitle == Cardinality(Titles) <= 1

\* the pattern digits, '.', whitespace, text
NumberedText(t) ==
    LET d == Len(PrefixIn(t, Digits))
    IN  /\ d >= 1
        /\ Len(t) >= d + 3
        /\ Ch(t, d) = "."
        /\ Ch(t, d + 1) \in Whitespace

\* a line without the double asterisks it is wrapped in, if it is
Unwrapped(t) == IF Wrapped(t) /\ Len(t) >= 4 THEN Slice(t, 2, Len(t) - 2) ELSE t

SectionLine(t) == NumberedText(Unwrapped(t))

\* C12 (section headers): a line that is not blank, not a divider, not
\* rendered as a title, and that reads digits, '.', whitespace, text, wrapped
\* in double asterisks or not, is rendered as a heading whose text is the
\* header text without the double asterisks.
SectionHeaderHeading ==
    \A k \in 1..Len(doc) :
        (SectionLine(LineOf(k)) /\ doc[k].kind \notin {"blank", "rule", "title"})
            => /\ doc[k].kind = "heading"
               /\ RunTexts(doc[k].runs) = Unwrapped(LineOf(k))

\* the line consists only of note symbols and the whitespace between them
OnlyNotes(t) == \A k \in 1..Len(t) : t[k] \in {Note} \cup Whitespace

\* C13 (lyric lines): a line that starts with a note symbol is rendered as
\* one paragraph with spacing-after zero; the paragraph is centered when the
\* stripped line consists only of note symbols, and otherwise it is
\* left-aligned with an italic run of muted colour.
LyricRendering ==
    \A k \in 1..Len(doc) :
        StartsWith(LineOf(k), <<Note>>)
            => /\ doc[k].space_after = "0pt"
               /\ IF OnlyNotes(LineOf(k))
                  THEN doc[k].align = "center"
                  ELSE /\ doc[k].align = "left"
                       /\ \A r \in 1..Len(doc[k].runs) :
                             doc[k].runs[r].italic /\ doc[k].runs[r].color = "gray"

\* C15 (divider collapse): two or more consecutive divider lines give one
\* rule paragraph at that position: no two rule paragraphs of the document
\* are adjacent.
NoAdjacentRules ==
    \A k \in 1..(Len(doc) - 1) :
        ~(doc[k].kind = "rule" /\ doc[k + 1].kind = "rule")

\* C16 (no boundary dividers): the last paragraph of the saved document is
\* not a rule, and its first paragraph is a rule only when the title comes
\* right after it.
NoBoundaryRules ==
    (pc = "saved" /\ doc /= <<>>)
        => /\ doc[Len(doc)].kind /= "rule"
           /\ doc[1].kind = "rule" => (Len(doc) >= 2 /\ doc[2].kind = "title")

\* a paragraph without any run: spacing only
EmptyBlock(p) == p.kind \in {"blank", "plain"} /\ p.runs = <<>>

AllBlank == lines /= <<>> /\ \A k \in 1..Len(lines) : LineOf(k) = <<>>

\* C18 as claimed (structurally empty input): when every line is blank, the
\* saved document has no paragraph.
AllBlankNoBlocks == (pc = "saved" /\ AllBlank) => doc = <<>>

\* C18 as amended: when every line is blank, the export reaches the save and
\* the saved document holds one empty paragraph for each line and nothing
\* else.
AllBlankOnlyEmpty ==
    /\ (pc = "loop" /\ AllBlank /\ i < Len(lines)) => ENABLED ExportBlank
    /\ (pc = "loop" /\ AllBlank /\ i >= Len(lines)) => ENABLED Save
    /\ (pc = "saved" /\ AllBlank)
          => /\ Len(doc) = Len(lines)
             /\ \A k \in 1..Len(doc) : doc[k] = BlankPara

\* C18 witness: a text of several blank lines was exported and saved.
AllBlankSaved == pc = "saved" /\ AllBlank /\ Len(lines) >= 2 /\ Len(doc) >= 2

\* the paragraphs of the document that are the license paragraph
Licenses == {k \in 1..Len(doc) : doc[k] = LicensePara}

\* C20 (trailing license paragraph): the document create_word_document
\* saves ends with the license paragraph, which is in it once; while the
\* body is being added the document holds no license paragraph.  This holds
\* for every text and title, also when the body has no line with text.
LicenseLast ==
    /\ pc = "saved" => (doc /= <<>> /\ Licenses = {Len(doc)})
    /\ pc = "webloop" => Licenses = {}

\* C20 witness: a document whose body has no line with text was saved, and
\* its last paragraph is the license paragraph.
LicenseAfterEmptyBody ==
    /\ pc = "saved"
    /\ \A k \in 1..Len(lines) : Strip(lines[k], Whitespace) = <<>>
    /\ doc[Len(doc)] = LicensePara

\* the text before the first colon reads like a name: it starts with a
\* letter and holds letters, spaces, periods and parentheses only
NameLike(t) ==
    /\ t /= <<>>
    /\ t[1] \in Letters
    /\ \A k \in 1..Len(t) : t[k] \in Letters \cup {" ", ".", "(", ")"}

\* a speaker line: letters, spaces and parentheses up to a closing colon, or
\* a name-like prefix and a colon within the first 50 characters
SpeakerHeader(t) ==
    \/ WebIsSpeaker(t)
    \/ /\ Contains(t, <<":">>)
       /\ FirstColon(t) < SpeakerLimit
       /\ NameLike(Slice(t, 0, FirstColon(t)))

\* C14 (speaker lines): the paragraph rendered for a speaker line has
\* exactly one run, the run is bold and its text is the whole line.  Stated
\* for the paragraph of the response document that was read last.
SpeakerOneBoldRun ==
    (pc \in {"apiloop", "saved"} /\ i >= 1 /\ SpeakerHeader(StripAll(lines[i])))
        => LET p == doc[Len(doc)]
           IN  /\ Len(p.runs) = 1
               /\ p.runs[1].bold
               /\ p.runs[1].text = StripAll(lines[i])

\* C19 (empty input is rejected): for a transcript that is empty or holds
\* whitespace only, no progress message is delivered, no request is made
\* to the model, no text is handed to a renderer and no front end answers
\* with a document.
EmptyRejected ==
    (front /= "none" /\ StripAll(content) = <<>>)
        => /\ callbacks = <<>>
           /\ api_calls = 0
           /\ rendered = <<>>
           /\ response /= "document"

\* the part of C19 about format_transcript alone: an empty or
\* whitespace-only transcript of the CLI ends with ValueError, without a
\* progress message, a request or a document.
FormatRejectsEmpty ==
    (front = "cli" /\ StripAll(content) = <<>>)
        => /\ callbacks = <<>> /\ api_calls = 0 /\ rendered = <<>>
           /\ pc \in {"format", "raised", "done"}
           /\ pc /= "format" => exc = "ValueError"
           /\ pc = "done" => response = "error"

\* the paragraph the loop body adds for a stripped line when the document
\* holds nparas paragraphs
ParaOf(line, nparas) ==
    LET kind == Classify(line, nparas)
    IN  IF kind = "blank" THEN BlankPara
        ELSE IF kind = "rule" THEN RulePara
        ELSE IF kind = "title" THEN TitlePara(line)
        ELSE IF kind = "heading" THEN HeadingPara(line)
        ELSE IF kind = "lyric" THEN LyricPara(line)
        ELSE PlainPara(line)

RECURSIVE FreshDoc(_, _)
\* the document a new exporter builds from the lines ls, after the
\* paragraphs acc of the lines before them
FreshDoc(ls, acc) ==
    IF ls = <<>> THEN acc
    ELSE FreshDoc(Tail(ls), Append(acc, ParaOf(Strip(Head(ls), Whitespace), Len(acc))))

\* C21 (no carried state): the document an export call saves is the one a
\* first call on a new exporter builds from the same text: it holds no
\* paragraph of an earlier call, and its lines are classified as in a first
\* call.
NoCarriedState == pc = "saved" => doc = FreshDoc(lines, <<>>)

\* C26 (one block per line, in order): on a new exporter the loop reads the
\* lines in index order, each once; after i lines the document holds i
\* paragraphs, the k-th being the paragraph of the k-th line; a branch of the
\* loop takes each line, and the document is saved after Len(lines) lines.
OneBlockPerLine ==
    /\ pc \in {"loop", "saved"}
          => /\ i <= Len(lines)
             /\ Len(doc) = i
             /\ \A k \in 1..Len(doc) : doc[k] = ParaOf(LineOf(k), k - 1)
    /\ (pc = "loop" /\ i < Len(lines))
          => \E kind \in {"blank", "rule", "title", "heading", "lyric", "plain"} :
                InLoop(kind)
    /\ (pc = "loop" /\ i >= Len(lines)) => ENABLED Save
    /\ pc = "saved" => (i = Len(lines) /\ Len(doc) = Len(lines))

\* C26 witness: a text of several lines was saved, its paragraphs of more
\* than one kind, the last one that of the last line.
SeveralLinesSaved ==
    /\ pc = "saved"
    /\ Len(lines) >= 3
    /\ Len(doc) = Len(lines)
    /\ doc[1].kind /= doc[Len(doc)].kind
    /\ doc[Len(doc)] = ParaOf(LineOf(Len(lines)), Len(lines) - 1)

\* the lines of the text given to create_word_document
InputLines == SplitNL(formatted)

\* the positions of the input lines that are not empty after trimming and do
\* not start with the box character
TitleCandidates ==
    { k \in 1..Len(InputLines) :
        LET l == Strip(InputLines[k], Whitespace)
        IN  l /= <<>> /\ Head(l) /= BoxDash }

\* the title paragraphs of the document
TitleParas == { k \in 1..Len(doc) : doc[k].kind = "title" }

\* the document has one title paragraph and its text is t
OneTitleWith(t) ==
    /\ Cardinality(TitleParas) = 1
    /\ \A k \in TitleParas : doc[k] = WebTitlePara(t)

\* C27 (title extraction in create_word_document), as stated: the first
\* line that is not empty after trimming and does not start with the box
\* character is the title, emitted once as the title paragraph, and the body
\* lines are exactly the input lines after it; without such a line the
\* title argument is used and the body is the whole input.
TitleExtraction ==
    pc \in {"webloop", "saved"}
        => IF TitleCandidates /= {}
           THEN LET k == MinOf(TitleCandidates)
                IN  /\ OneTitleWith(Strip(InputLines[k], Whitespace))
                    /\ lines = SubSeq(InputLines, k + 1, Len(InputLines))
           ELSE /\ OneTitleWith(title)
                /\ lines = InputLines

\* C27 as the code has it: as above, except that when the title line is the
\* last line of the input the body is the empty text, which the loop then
\* reads as one blank line.
TitleExtractionBody ==
    pc \in {"webloop", "saved"}
        => IF TitleCandidates /= {}
           THEN LET k == MinOf(TitleCandidates)
                IN  /\ OneTitleWith(Strip(InputLines[k], Whitespace))
                    /\ lines = IF k = Len(InputLines)
                               THEN << <<>> >>
                               ELSE SubSeq(InputLines, k + 1, Len(InputLines))
           ELSE /\ OneTitleWith(title)
                /\ lines = InputLines

\* C27 witness: a document was saved whose title line came last, after a
\* blank line, so that its body is one blank line.
TitleLineLastSaved ==
    /\ pc = "saved"
    /\ TitleCandidates /= {}
    /\ MinOf(TitleCandidates) = Len(InputLines)
    /\ Len(InputLines) >= 2
    /\ lines = << <<>> >>
    /\ \E k \in 1..Len(doc) : doc[k] = WebTitlePara(<<"a">>)

\* C22 (all-or-nothing construction): in every front end the renderer is
\* called only when the formatting call has returned without an exception,
\* once, with the whole text it returned; after a failed formatting call,
\* also one that failed in the middle of the stream, nothing is rendered and
\* the answer is never a document.
AllOrNothing ==
    /\ rendered /= <<>> => (exc = "none" /\ pc = "done" /\ rendered = <<formatted>>)
    /\ response = "document" => (exc = "none" /\ rendered = <<formatted>>)
    /\ exc /= "none" => (rendered = <<>> /\ response /= "document")
    /\ pc \in {"format", "prepared", "sent", "stream", "inline", "raised"}
          => (rendered = <<>> /\ response = "none")

\* C22 witness: the stream failed after a part of the answer had arrived,
\* and the front end answered with the error without rendering anything.
StreamFailedNothingRendered ==
    /\ pc = "done"
    /\ exc = "RuntimeError"
    /\ formatted /= <<>>
    /\ rendered = <<>>
    /\ response = "error"

\* C23 (API failure error type): when the request to the model API fails,
\* format_transcript and format_with_claude raise anthropic.APIError.
ApiFailureRaisesAPIError ==
    (pc = "raised" /\ front \in {"cli", "fast"} /\ api_calls >= 1)
        => exc = "APIError"

\* the messages of a successful format_transcript call, in order
AllMessages == <<"Preparing", "Sending", "Processing", "completed">>

CleanIdempotent == Len(cleaned) >= 2 => cleaned[2] = cleaned[1]

\* the three models were called in the order of the list and all but the
\* last call failed
TriedInOrder ==
    /\ Len(tried) <= Len(models_to_try)
    /\ \A k \in 1..Len(tried) : tried[k].model = models_to_try[k]
    /\ \A k \in 1..(Len(tried) - 1) : tried[k].outcome /= "ok"

\* C28 (model fallback order): the models are called in the order Claude
\* Sonnet 4.5, Claude 3.5 Sonnet, Claude 3.5 Sonnet Latest, one request each;
\* the function returns the text and the name of the first model that
\* answers and calls no model after it; a model is called only when every
\* model before it failed; RuntimeError is raised only when all three
\* failed, with the error of the last one.
FallbackOrder ==
    front = "fallback"
        => /\ TriedInOrder
           /\ api_calls = Len(tried)
           /\ pc = "models" => \A k \in 1..Len(tried) : tried[k].outcome /= "ok"
           /\ pc = "returned"
                 => /\ tried /= <<>>
                    /\ tried[Len(tried)].outcome = "ok"
                    /\ formatter_used = tried[Len(tried)].model
                    /\ exc = "none"
           /\ exc = "RuntimeError"
                 => /\ Len(tried) = Len(models_to_try)
                    /\ \A k \in 1..Len(tried) : tried[k].outcome /= "ok"
                    /\ exc_msg = tried[Len(tried)].outcome
                    /\ formatter_used = "none"
           /\ pc = "raised" => exc \in {"RuntimeError", "ValueError"}
           /\ exc = "ValueError" => tried = <<>>

\* C28 witness: the first model failed and the second answered; the second
\* model's name is returned and the third was not called.
SecondModelAnswered ==
    /\ front = "fallback"
    /\ pc = "returned"
    /\ Len(tried) = 2
    /\ tried[1].outcome = "RateLimitError"
    /\ formatter_used = "Claude 3.5 Sonnet"
    /\ formatted /= <<>>

\* the requests whose upload is saved and not yet removed by themselves
InProgress == { r \in Reqs : reqs[r].pc \in {"saved", "read", "formatted", "created"} }

\* C25 (no cross-request interference): while a request is handled its
\* uploaded file stays the one it saved, the content it reads is the content
\* it uploaded, and the document it wrote stays its own until it answers;
\* no other request overwrites or deletes them, also with the same filename.
NoInterference ==
    \A r \in Reqs :
        /\ r \in InProgress => uploads[reqs[r].filename] = File(r, reqs[r].data)
        /\ reqs[r].content /= "none" => reqs[r].content = reqs[r].data
        /\ reqs[r].pc = "created"
              => outputs[OutputName(reqs[r].filename)]
                    = File(r, Formatted(reqs[r].data))

\* C29 (upload cleanup): when upload_file has answered a request whose
\* upload it had saved, on whatever path, the file it saved is in the
\* uploads folder no more.
UploadRemoved ==
    \A r \in Reqs :
        (reqs[r].pc = "done" /\ reqs[r].saved)
            => uploads[reqs[r].filename].owner /= r

====
